---- MODULE Spec2Model ----
(***************************************************************************)
(* Build orchestration of the PyInstaller front end: the command builder   *)
(* (BuildWorker._build_command), the streaming process runner              *)
(* (run_command_stream), the build worker thread (BuildWorker.run) and the *)
(* supervisor (Builder); then the buffered runner (run_command) and the    *)
(* environment orchestrator (VenvWorker, VenvManager); and the plugin      *)
(* registry (PluginLoader).                                                *)
(*                                                                         *)
(* Strings are sequences of characters.  A character is either the blank   *)
(* " ", the newline, the stored data-file separator ";", the platform      *)
(* separator ":" or a chunk: a non-empty run of text holding no whitespace *)
(* and no separator (such as "app.py" or "--onefile"), written as one      *)
(* element.  Messages that are only compared are TLA+ strings.             *)
(***************************************************************************)
EXTENDS Integers, Sequences, FiniteSets, TLC

VARIABLES
    workers,         \* the BuildWorker threads created so far, in creation order
    procs,           \* the subprocess of each worker (same index)
    current_worker,  \* Builder.current_worker: 0 (None) or an index of workers
    main_pc,         \* where the calling (GUI) thread is: "idle" or inside cancel_build
    last_start,      \* how the latest Builder.start_build call ended
    events,          \* queued signal emissions waiting in the caller's event loop
    delivered,       \* the emissions the listeners have received, in order
    bc_self,         \* command builder run: the worker's config and python_path
    bc_env,          \* command builder run: sys.platform and the files on disk
    bc_pc,           \* command builder run: "pending" or "done"
    bc_out,          \* command builder run: what _build_command returned or raised
    runs,            \* the calls of run_command / run_command_stream outside a
                     \* build, each with the process it spawned
    vworkers,        \* the VenvWorker threads created so far (same index as runs)
    venv_current,    \* VenvManager.current_worker: 0 (None) or an index of vworkers
    host,            \* sys.platform and the files and directories on disk
    info,            \* what the latest get_venv_info / list_venvs call returned
    pdir,            \* the plugins directory: whether it exists, and its files
    plugins,         \* PluginLoader.plugins: the entries in insertion order
    reload,          \* where _load_plugins is, and what it started from
    plog,            \* the latest get_plugin / execute_plugin /
                     \* execute_post_build_plugins call and what it returned
    win              \* MainWindow: the Build and Cancel buttons, the progress
                     \* bar, and the builds whose post-build plugins were run

build_vars == <<workers, procs, current_worker, main_pc, last_start, events, delivered>>
cmd_vars == <<bc_self, bc_env, bc_pc, bc_out>>
env_vars == <<runs, vworkers, venv_current, host, info>>
plug_vars == <<pdir, plugins, reload, plog>>
vars == <<workers, procs, current_worker, main_pc, last_start, events, delivered,
          bc_self, bc_env, bc_pc, bc_out,
          runs, vworkers, venv_current, host, info,
          pdir, plugins, reload, plog, win>>

\* no runner call, no environment worker, an empty disk, nothing inspected
EnvIdle ==
    /\ runs = <<>>
    /\ vworkers = <<>>
    /\ venv_current = 0
    /\ host = [platform |-> "linux", files |-> {}, dirs |-> {}]
    /\ info = <<>>

\* no PluginLoader call in progress or made
NoReload == [pc |-> "idle", todo |-> <<>>, order |-> <<>>, dir |-> {},
             prev_dir |-> {}, old |-> <<>>, gen |-> 0]
NoCall == [op |-> "none", name |-> "", outcome |-> <<>>, ran |-> <<>>,
           value |-> FALSE, results |-> <<>>, raised |-> FALSE,
           seen |-> <<>>, overlap |-> FALSE]

\* MainWindow.__init__: Build enabled, Cancel disabled, progress bar hidden
WinIdle ==
    win = [build_btn |-> TRUE, cancel_btn |-> FALSE, progress_bar |-> FALSE,
           post_runs |-> <<>>]

\* no plugins directory and no loader
PlugIdle ==
    /\ pdir = [exists |-> FALSE, files |-> {}]
    /\ plugins = <<>>
    /\ reload = NoReload
    /\ plog = NoCall

--------------------------------------------------------------------------
(* Bounds *)

MaxList == 2   \* longest hidden_imports / exclude_modules / data_files list
MaxLen == 3    \* longest additional_args string, in characters
MaxBuilds == 2 \* accepted Builder.start_build calls
MaxLines == 2  \* most lines one packaging process writes
QuietLines == 0 \* the same, where several builds follow each other
MaxOps == 2    \* environment operations requested of one VenvManager

--------------------------------------------------------------------------
(* str methods used by the command builder *)

WS == {" ", "\n"}

S(chunk) == <<chunk>>

RECURSIVE lstrip(_)
lstrip(s) ==
    IF s = <<>> THEN <<>>
    ELSE IF Head(s) \in WS THEN lstrip(Tail(s)) ELSE s

RECURSIVE rstrip(_)
rstrip(s) ==
    IF s = <<>> THEN <<>>
    ELSE IF s[Len(s)] \in WS THEN rstrip(SubSeq(s, 1, Len(s) - 1)) ELSE s

\* str.strip(): surrounding whitespace removed
strip(s) == rstrip(lstrip(s))

\* str.replace(old, new) for one-character old and new: EVERY occurrence
replace(s, old, new) == [i \in 1..Len(s) |-> IF s[i] = old THEN new ELSE s[i]]

\* str.split(): the maximal runs of non-whitespace, left to right
RECURSIVE split_from(_, _, _)
split_from(s, cur, acc) ==
    IF s = <<>> THEN (IF cur = <<>> THEN acc ELSE Append(acc, cur))
    ELSE IF Head(s) \in WS
         THEN split_from(Tail(s), <<>>, IF cur = <<>> THEN acc ELSE Append(acc, cur))
         ELSE split_from(Tail(s), Append(cur, Head(s)), acc)

split(s) == split_from(s, <<>>, <<>>)

--------------------------------------------------------------------------
(* BuildConfig and the command builder *)

\* BuildConfig(): the dataclass with its defaults
BuildConfig ==
    [script_path |-> <<>>, requirements_path |-> <<>>, output_dir |-> <<>>,
     icon_path |-> <<>>, app_name |-> <<>>, one_file |-> TRUE,
     console_mode |-> TRUE, clean_build |-> TRUE, hidden_imports |-> <<>>,
     exclude_modules |-> <<>>, data_files |-> <<>>, additional_args |-> <<>>]

\* get_python_executable(): sys.executable
get_python_executable == S("python")

\* BuildWorker.__init__: python_path or get_python_executable()
BuildWorker_init(config, python_path) ==
    [config |-> config,
     python_path |-> IF python_path = <<>> THEN get_python_executable
                     ELSE python_path]

RECURSIVE extend_unstripped(_, _, _)
extend_unstripped(cmd, flag, entries) ==
    IF entries = <<>> THEN cmd
    ELSE extend_unstripped(
             IF strip(Head(entries)) # <<>>
             THEN cmd \o <<flag, Head(entries)>>
             ELSE cmd,
             flag, Tail(entries))

\* the for loops of _build_command: cmd.extend([flag, value]) per kept entry
RECURSIVE extend_stripped(_, _, _)
extend_stripped(cmd, flag, entries) ==
    IF entries = <<>> THEN cmd
    ELSE extend_stripped(
             IF strip(Head(entries)) # <<>>
             THEN cmd \o <<flag, strip(Head(entries))>>
             ELSE cmd,
             flag, Tail(entries))

RECURSIVE extend_data(_, _, _)
extend_data(cmd, path_sep, entries) ==
    IF entries = <<>> THEN cmd
    ELSE extend_data(
             IF strip(Head(entries)) # <<>>
             THEN cmd \o <<S("--add-data"),
                           replace(strip(Head(entries)), ";", path_sep)>>
             ELSE cmd,
             path_sep, Tail(entries))

script_missing_never(config) == FALSE

\* _build_command, lines 59-61: "if not script_path"
script_missing(config) == config.script_path = <<>>

mode_flag_swapped(config) ==
    IF config.one_file THEN S("--onedir") ELSE S("--onefile")

\* _build_command, lines 64-67: the output-mode flag
mode_flag(config) ==
    IF config.one_file THEN S("--onefile") ELSE S("--onedir")

finish_command_script_first(cmd, config) ==
    IF config.additional_args # <<>>
    THEN Append(cmd, config.script_path) \o split(config.additional_args)
    ELSE Append(cmd, config.script_path)

\* _build_command, lines 111-119: the raw arguments, then the script
finish_command(cmd, config) ==
    LET c11 == IF config.additional_args # <<>>
               THEN cmd \o split(config.additional_args) ELSE cmd
    IN  Append(c11, config.script_path)

icon_kept_unchecked(config, env) == config.icon_path # <<>>

\* BuildWorker._build_command, line 89: the icon is named and its path exists
icon_kept(config, env) ==
    config.icon_path # <<>> /\ config.icon_path \in env.files

\* BuildWorker._build_command: the list it returns, or the ValueError it raises
build_command(self, env) ==
    LET config == self.config
        c0 == <<self.python_path, S("-m"), S("PyInstaller")>>
        c1 == Append(c0, mode_flag(config))
        c2 == IF ~config.console_mode THEN Append(c1, S("--noconsole")) ELSE c1
        c3 == IF config.clean_build THEN Append(c2, S("--clean")) ELSE c2
        c4 == Append(c3, S("--noconfirm"))
        c5 == IF config.output_dir # <<>>
              THEN c4 \o <<S("--distpath"), config.output_dir>> ELSE c4
        c6 == IF config.app_name # <<>>
              THEN c5 \o <<S("--name"), config.app_name>> ELSE c5
        c7 == IF icon_kept(config, env)
              THEN c6 \o <<S("--icon"), config.icon_path>> ELSE c6
        c8 == extend_stripped(c7, S("--hidden-import"), config.hidden_imports)
        c9 == extend_stripped(c8, S("--exclude-module"), config.exclude_modules)
        path_sep == IF env.platform = "win32" THEN ";" ELSE ":"
        c10 == extend_data(c9, path_sep, config.data_files)
        c12 == finish_command(c10, config)
    IN  IF script_missing(config)
        THEN [raised |-> TRUE, error |-> "Script path is required", cmd |-> <<>>]
        ELSE [raised |-> FALSE, error |-> "", cmd |-> c12]

--------------------------------------------------------------------------
(* Inputs of the command builder runs *)

\* the elements of a sequence
Range(seq) == {seq[i] : i \in DOMAIN seq}

RECURSIVE SeqsUpTo(_, _)
SeqsUpTo(X, n) ==
    IF n = 0 THEN {<<>>}
    ELSE LET shorter == SeqsUpTo(X, n - 1)
         IN  shorter \cup {Append(s, x) : s \in {t \in shorter : Len(t) = n - 1}, x \in X}

Platforms == {"win32", "linux"}
IconFile == S("app.ico")
NoOutcome == [raised |-> FALSE, error |-> "", cmd |-> <<>>]

ModuleEntries == {<<" ">>, <<" ", "m", " ">>, <<"n">>}
ExcludeEntries == {<<" ">>, <<"e", " ">>}
DataSources == {<<"a">>, <<"a", ";", "b">>}
DataDests == {<<"d">>}
DataEntries == {<<" ">>} \cup {s \o <<";">> \o d : s \in DataSources, d \in DataDests}
ArgChars == {" ", "x", "--onedir"}

\* workers whose configuration varies the scalar fields and the free-form
\* arguments, on a host with or without the icon file
ScalarInit ==
    \E sp \in {<<>>, S("app.py")}, od \in {<<>>, S("out")},
       an \in {<<>>, S("App")}, ip \in {<<>>, IconFile},
       of \in BOOLEAN, cm \in BOOLEAN, cb \in BOOLEAN,
       aa \in SeqsUpTo(ArgChars, MaxLen),
       pp \in {<<>>, S("venv/python")}, f \in {{}, {IconFile}} :
        /\ bc_self = BuildWorker_init(
               [BuildConfig EXCEPT !.script_path = sp, !.output_dir = od,
                                   !.app_name = an, !.icon_path = ip,
                                   !.one_file = of, !.console_mode = cm,
                                   !.clean_build = cb, !.additional_args = aa],
               pp)
        /\ bc_env = [platform |-> "linux", files |-> f]

\* workers whose configuration varies the three lists, on either platform
ListInit ==
    \E of \in BOOLEAN,
       hi \in SeqsUpTo(ModuleEntries, MaxList),
       em \in SeqsUpTo(ExcludeEntries, MaxList),
       df \in SeqsUpTo(DataEntries, MaxList),
       aa \in {<<>>, <<"x">>}, p \in Platforms :
        /\ bc_self = BuildWorker_init(
               [BuildConfig EXCEPT !.script_path = S("app.py"), !.one_file = of,
                                   !.hidden_imports = hi, !.exclude_modules = em,
                                   !.data_files = df, !.additional_args = aa],
               <<>>)
        /\ bc_env = [platform |-> p, files |-> {}]

\* Builder.__init__, and nothing queued or delivered yet
BuilderInit ==
    /\ workers = <<>>
    /\ procs = <<>>
    /\ current_worker = 0
    /\ main_pc = "idle"
    /\ last_start = "none"
    /\ events = <<>>
    /\ delivered = <<>>

CmdInit ==
    /\ ScalarInit \/ ListInit
    /\ bc_pc = "pending"
    /\ bc_out = NoOutcome
    /\ BuilderInit
    /\ EnvIdle
    /\ PlugIdle
    /\ WinIdle

\* one call of BuildWorker._build_command
BuildCmd ==
    /\ bc_pc = "pending"
    /\ bc_pc' = "done"
    /\ bc_out' = build_command(bc_self, bc_env)
    /\ UNCHANGED <<bc_self, bc_env>>
    /\ UNCHANGED build_vars
    /\ UNCHANGED env_vars
    /\ UNCHANGED plug_vars
    /\ UNCHANGED win

CmdNext == BuildCmd

CmdSpec == CmdInit /\ [][CmdNext]_vars

--------------------------------------------------------------------------
(* Results *)

\* BuildStatus
IDLE == "idle"
RUNNING == "running"
SUCCESS == "success"
FAILED == "failed"
CANCELLED == "cancelled"

\* ProcessResult(return_code, stdout, stderr, success); stdout is the list of
\* lines read, stderr a message or ""
ProcessResult(return_code, stdout, stderr, success) ==
    [return_code |-> return_code, stdout |-> stdout, stderr |-> stderr,
     success |-> success]

NoResult == ProcessResult(0, <<>>, "", FALSE)

\* BuildResult(status, output_path, error_message); output_path None is <<>>.
\* build_time, a wall-clock reading, is left out.
BuildResult(status, output_path, error_message) ==
    [status |-> status, output_path |-> output_path,
     error_message |-> error_message]

--------------------------------------------------------------------------
(* The build worker thread and its subprocess *)

\* the host the builds run on
HostEnv == [platform |-> "linux", files |-> {}]

\* the configurations handed to Builder.start_build
BuildConfigs ==
    {BuildConfig,
     [BuildConfig EXCEPT !.output_dir = S("out")],
     [BuildConfig EXCEPT !.script_path = S("app.py")],
     [BuildConfig EXCEPT !.script_path = S("app.py"), !.output_dir = S("out")]}

\* the same where several builds follow each other
SeqConfigs ==
    {BuildConfig,
     [BuildConfig EXCEPT !.script_path = S("app.py"), !.output_dir = S("out")]}

Workers == 1..Len(workers)

\* QThread.isRunning()
isRunning(w) == workers[w].thread = "running"

\* a signal emitted from the worker thread is queued to the caller's thread
Emit(w, sig, arg) == Append(events, [w |-> w, sig |-> sig, arg |-> arg])

\* a fresh BuildWorker, started: BuildWorker.__init__ and QThread.start()
NewWorker(config, python_path) ==
    [self |-> BuildWorker_init(config, python_path),
     cancelled |-> FALSE,          \* self._cancelled
     thread |-> "running",         \* "running", "finished" or "terminated"
     term_req |-> FALSE,           \* QThread.terminate() was called on it
     pc |-> "prepare",             \* position in run()
     cmd |-> <<>>,
     error |-> "",                 \* str(e) of the exception caught by run()
     stdout_lines |-> <<>>,
     result |-> NoResult,
     \* history, read by the properties only
     cancel_when |-> "",           \* when cancel() first came: see note_cancel
     flag_at_return |-> FALSE,     \* _cancelled when run_command_stream returned
     flag_at_check |-> FALSE]      \* _cancelled as read by "if self._cancelled"

NoProcess == [state |-> "none", left |-> 0, pipe |-> <<>>, returncode |-> 0,
              produced |-> 0,
              wrote_err |-> FALSE]  \* it has written to its standard error

\* run(), lines 127-128
RunPrepare(w) ==
    /\ isRunning(w) /\ workers[w].pc = "prepare"
    /\ events' = Emit(w, "status_changed", "Preparing build...")
    /\ workers' = [workers EXCEPT ![w].pc = "build_cmd"]
    /\ UNCHANGED <<procs, current_worker, main_pc, last_start, delivered,
                 cmd_vars, env_vars, plug_vars, win>>

\* run(), line 131: cmd = self._build_command(), or the jump to the handler
RunBuildCommand(w) ==
    /\ isRunning(w) /\ workers[w].pc = "build_cmd"
    /\ LET out == build_command(workers[w].self, HostEnv)
       IN  workers' = IF out.raised
                      THEN [workers EXCEPT ![w].pc = "except",
                                           ![w].error = out.error]
                      ELSE [workers EXCEPT ![w].pc = "echo", ![w].cmd = out.cmd]
    /\ UNCHANGED <<procs, current_worker, main_pc, last_start, events, delivered,
                 cmd_vars, env_vars, plug_vars, win>>

\* run() without lines 132-133: the command is not echoed
RunEcho_skipped(w) ==
    /\ isRunning(w) /\ workers[w].pc = "echo"
    /\ workers' = [workers EXCEPT ![w].pc = "building"]
    /\ UNCHANGED <<procs, current_worker, main_pc, last_start, events, delivered,
                 cmd_vars, env_vars, plug_vars, win>>

\* run(), lines 132-133: the command echoed as an output line
RunEcho(w) ==
    /\ isRunning(w) /\ workers[w].pc = "echo"
    /\ events' = Emit(w, "output_line", <<"cmd">>)
    /\ workers' = [workers EXCEPT ![w].pc = "building"]
    /\ UNCHANGED <<procs, current_worker, main_pc, last_start, delivered,
                 cmd_vars, env_vars, plug_vars, win>>

\* run(), line 135
RunBuilding(w) ==
    /\ isRunning(w) /\ workers[w].pc = "building"
    /\ events' = Emit(w, "status_changed", "Building...")
    /\ workers' = [workers EXCEPT ![w].pc = "spawn"]
    /\ UNCHANGED <<procs, current_worker, main_pc, last_start, delivered,
                 cmd_vars, env_vars, plug_vars, win>>

\* run_command_stream, lines 71-80: Popen starts a process that will write n
\* lines, or raises and the handler of lines 96-102 builds the result
StreamSpawn(w, most) ==
    /\ isRunning(w) /\ workers[w].pc = "spawn"
    /\ \/ \E n \in 0..most :
            /\ procs' = [procs EXCEPT ![w] = [NoProcess EXCEPT !.state = "alive",
                                                               !.left = n]]
            /\ workers' = [workers EXCEPT ![w].pc = "read"]
       \/ /\ workers' = [workers EXCEPT
                ![w].pc = "returned",
                ![w].result = ProcessResult(-1, <<>>, "spawn failed", FALSE),
                ![w].flag_at_return = workers[w].cancelled]
          /\ UNCHANGED procs
    /\ UNCHANGED <<current_worker, main_pc, last_start, events, delivered,
                 cmd_vars, env_vars, plug_vars, win>>

output_callback_relays_all(w, line) == Emit(w, "output_line", <<"line", line>>)

\* BuildWorker.run.output_callback, lines 138-140
output_callback(w, line) ==
    IF ~workers[w].cancelled THEN Emit(w, "output_line", <<"line", line>>)
    ELSE events

\* run_command_stream, lines 83-86: one readline; a line is kept and handed to
\* the consumer, '' (the process has exited and the pipe is empty) ends the loop
StreamRead(w) ==
    /\ isRunning(w) /\ workers[w].pc = "read"
    /\ \/ /\ procs[w].pipe # <<>>
          /\ procs' = [procs EXCEPT ![w].pipe = Tail(@)]
          /\ workers' = [workers EXCEPT
                ![w].stdout_lines = Append(@, Head(procs[w].pipe))]
          /\ events' = output_callback(w, Head(procs[w].pipe))
       \/ /\ procs[w].pipe = <<>> /\ procs[w].state = "exited"
          /\ workers' = [workers EXCEPT ![w].pc = "wait"]
          /\ UNCHANGED <<procs, events,
                 cmd_vars, env_vars, plug_vars, win>>
    /\ UNCHANGED <<current_worker, main_pc, last_start, delivered,
                 cmd_vars, env_vars, plug_vars, win>>

\* run_command_stream, lines 88-95: process.wait() and the result returned
StreamWait(w) ==
    /\ isRunning(w) /\ workers[w].pc = "wait"
    /\ procs[w].state = "exited"
    /\ workers' = [workers EXCEPT
          ![w].pc = "returned",
          ![w].result = ProcessResult(procs[w].returncode,
                                      workers[w].stdout_lines, "",
                                      procs[w].returncode = 0),
          ![w].flag_at_return = workers[w].cancelled]
    /\ UNCHANGED <<procs, current_worker, main_pc, last_start, events, delivered,
                 cmd_vars, env_vars, plug_vars, win>>

result_branch_success_first(cancelled, result) ==
    IF result.success THEN "emit_success"
    ELSE IF cancelled THEN "emit_cancelled"
    ELSE "emit_failed"

\* run(), lines 148-171: which result the worker goes on to emit
result_branch(cancelled, result) ==
    IF cancelled THEN "emit_cancelled"
    ELSE IF result.success THEN "emit_success"
    ELSE "emit_failed"

\* run(), lines 150, 157: the flag and the process result are read
RunCheck(w) ==
    /\ isRunning(w) /\ workers[w].pc = "returned"
    /\ workers' = [workers EXCEPT
          ![w].pc = result_branch(workers[w].cancelled, workers[w].result),
          ![w].flag_at_check = workers[w].cancelled]
    /\ UNCHANGED <<procs, current_worker, main_pc, last_start, events, delivered,
                 cmd_vars, env_vars, plug_vars, win>>

\* the BuildResult built on lines 151-154, 158-164 and 167-171
build_result(w) ==
    LET self == workers[w]
    IN  CASE self.pc = "emit_cancelled" -> BuildResult(CANCELLED, <<>>, "")
          [] self.pc = "emit_success" ->
                BuildResult(SUCCESS, self.self.config.output_dir, "")
          [] self.pc = "emit_failed" ->
                BuildResult(FAILED, <<>>,
                            IF self.result.stderr # "" THEN self.result.stderr
                            ELSE "Build failed")

\* line 155's return left out: after the cancelled result, run() goes on
RunEmitResult_no_return(w) ==
    /\ isRunning(w)
    /\ workers[w].pc \in {"emit_cancelled", "emit_success", "emit_failed"}
    /\ events' = Emit(w, "build_finished", build_result(w))
    /\ workers' = [workers EXCEPT ![w].pc =
                      IF workers[w].pc = "emit_cancelled"
                      THEN result_branch(FALSE, workers[w].result)
                      ELSE "done"]
    /\ UNCHANGED <<procs, current_worker, main_pc, last_start, delivered,
                   cmd_vars, env_vars, plug_vars, win>>

\* run(), lines 151, 160, 167: build_finished.emit(...)
RunEmitResult(w) ==
    /\ isRunning(w)
    /\ workers[w].pc \in {"emit_cancelled", "emit_success", "emit_failed"}
    /\ events' = Emit(w, "build_finished", build_result(w))
    /\ workers' = [workers EXCEPT ![w].pc = "done"]
    /\ UNCHANGED <<procs, current_worker, main_pc, last_start, delivered,
                 cmd_vars, env_vars, plug_vars, win>>

\* the BuildResult built on lines 176-180
except_result(w) == BuildResult(FAILED, <<>>, workers[w].error)

RunExcept_escapes(w) ==
    /\ isRunning(w) /\ workers[w].pc = "except"
    /\ workers' = [workers EXCEPT ![w].pc = "done"]
    /\ UNCHANGED <<procs, current_worker, main_pc, last_start, events, delivered,
                   cmd_vars, env_vars, plug_vars, win>>

\* run(), lines 173-180: the handler of "except Exception"
RunExcept(w) ==
    /\ isRunning(w) /\ workers[w].pc = "except"
    /\ events' = Emit(w, "build_finished", except_result(w))
    /\ workers' = [workers EXCEPT ![w].pc = "done"]
    /\ UNCHANGED <<procs, current_worker, main_pc, last_start, delivered,
                 cmd_vars, env_vars, plug_vars, win>>

\* run() has returned: the thread ends and isRunning() turns false
ThreadFinish(w) ==
    /\ isRunning(w) /\ workers[w].pc = "done"
    /\ workers' = [workers EXCEPT ![w].thread = "finished"]
    /\ UNCHANGED <<procs, current_worker, main_pc, last_start, events, delivered,
                 cmd_vars, env_vars, plug_vars, win>>

\* QThread.terminate() takes effect: the thread is killed wherever it is (at
\* once or later, as the operating system decides); run() goes no further
ThreadKilled(w) ==
    /\ isRunning(w) /\ workers[w].term_req
    /\ workers' = [workers EXCEPT ![w].thread = "terminated"]
    /\ UNCHANGED <<procs, current_worker, main_pc, last_start, events, delivered,
                 cmd_vars, env_vars, plug_vars, win>>

\* the packaging process writes its next line, to its standard output or to
\* its standard error: Popen(stderr=STDOUT) sends both down the one pipe
ProcWrite(w) ==
    /\ procs[w].state = "alive" /\ procs[w].left > 0
    /\ \E stream \in {"stdout", "stderr"} :
          procs' = [procs EXCEPT ![w].left = @ - 1,
                                ![w].produced = @ + 1,
                                ![w].pipe = Append(@, procs[w].produced + 1),
                                ![w].wrote_err = @ \/ stream = "stderr"]
    /\ UNCHANGED <<workers, current_worker, main_pc, last_start, events, delivered,
                 cmd_vars, env_vars, plug_vars, win>>

\* the packaging process exits, with code 0 or not
ProcExit(w) ==
    /\ procs[w].state = "alive" /\ procs[w].left = 0
    /\ \E rc \in {0, 1} :
          procs' = [procs EXCEPT ![w].state = "exited", ![w].returncode = rc]
    /\ UNCHANGED <<workers, current_worker, main_pc, last_start, events, delivered,
                 cmd_vars, env_vars, plug_vars, win>>

--------------------------------------------------------------------------
(* Builder, called from the caller's thread *)

\* Builder.is_building
is_building == current_worker # 0 /\ isRunning(current_worker)

start_rejected_never == FALSE

\* whether start_build raises RuntimeError (lines 199-200)
start_rejected == current_worker # 0 /\ isRunning(current_worker)

StartBuild_drops_worker(config) ==
    /\ main_pc = "idle"
    /\ IF start_rejected
       THEN /\ last_start' = "RuntimeError"
            /\ current_worker' = 0
            /\ UNCHANGED <<workers, procs>>
       ELSE /\ workers' = Append(workers, NewWorker(config, <<>>))
            /\ procs' = Append(procs, NoProcess)
            /\ current_worker' = Len(workers) + 1
            /\ last_start' = "started"
    /\ UNCHANGED <<main_pc, events, delivered,
                 cmd_vars, env_vars, plug_vars, win>>

\* Builder.start_build
StartBuild(config) ==
    /\ main_pc = "idle"
    /\ IF start_rejected
       THEN /\ last_start' = "RuntimeError"
            /\ UNCHANGED <<workers, procs, current_worker>>
       ELSE /\ workers' = Append(workers, NewWorker(config, <<>>))
            /\ procs' = Append(procs, NoProcess)
            /\ current_worker' = Len(workers) + 1
            /\ last_start' = "started"
    /\ UNCHANGED <<main_pc, events, delivered,
                 cmd_vars, env_vars, plug_vars, win>>

cancel_forgets(self) == self

\* BuildWorker.cancel
cancel(self) == [self EXCEPT !.cancelled = TRUE]

\* run() has not yet read the flag on line 150
FlagUnread(w) ==
    workers[w].pc \in {"prepare", "build_cmd", "echo", "building", "spawn",
                       "read", "wait", "returned"}

\* history: when cancel() was first called on worker w.  "quiet_unread": the
\* process had written nothing and run() had not read the flag; "quiet": the
\* process had written nothing and run() had not emitted its result; "late":
\* any later
note_cancel(w, self) ==
    IF workers[w].cancel_when # "" THEN self
    ELSE [self EXCEPT !.cancel_when =
            IF procs[w].produced = 0 /\ FlagUnread(w) THEN "quiet_unread"
            ELSE IF procs[w].produced = 0 /\ workers[w].pc # "done" THEN "quiet"
            ELSE "late"]

\* BuildWorker.cancel called by whoever holds the worker start_build returned
WorkerCancel(w) ==
    /\ main_pc = "idle"
    /\ ~workers[w].cancelled
    /\ workers' = [workers EXCEPT ![w] = note_cancel(w, cancel(workers[w]))]
    /\ UNCHANGED <<procs, current_worker, main_pc, last_start, events, delivered,
                 cmd_vars, env_vars, plug_vars, win>>

\* Builder.cancel_build, line 216
CancelBuild ==
    /\ main_pc = "idle"
    /\ main_pc' = IF is_building THEN "cb_cancel" ELSE "idle"
    /\ UNCHANGED <<workers, procs, current_worker, last_start, events, delivered,
                 cmd_vars, env_vars, plug_vars, win>>

\* Builder.cancel_build, line 217
CbCancel ==
    /\ main_pc = "cb_cancel"
    /\ workers' = [workers EXCEPT ![current_worker] =
                        note_cancel(current_worker, cancel(workers[current_worker]))]
    /\ main_pc' = "cb_terminate"
    /\ UNCHANGED <<procs, current_worker, last_start, events, delivered,
                 cmd_vars, env_vars, plug_vars, win>>

\* Builder.cancel_build, line 218: terminate() of a thread still running
CbTerminate ==
    /\ main_pc = "cb_terminate"
    /\ workers' = [workers EXCEPT ![current_worker].term_req =
                        isRunning(current_worker)]
    /\ main_pc' = "cb_wait"
    /\ UNCHANGED <<procs, current_worker, last_start, events, delivered,
                 cmd_vars, env_vars, plug_vars, win>>

\* Builder.cancel_build, line 219: wait() returns once the thread has ended
CbWait ==
    /\ main_pc = "cb_wait"
    /\ ~isRunning(current_worker)
    /\ main_pc' = "idle"
    /\ UNCHANGED <<workers, procs, current_worker, last_start, events, delivered,
                 cmd_vars, env_vars, plug_vars, win>>

Deliver_newest_first ==
    /\ main_pc = "idle"
    /\ events # <<>>
    /\ delivered' = Append(delivered, events[Len(events)])
    /\ events' = SubSeq(events, 1, Len(events) - 1)
    /\ UNCHANGED <<workers, procs, current_worker, main_pc, last_start,
                 cmd_vars, env_vars, plug_vars, win>>

\* the caller's event loop hands the oldest queued emission to its listener
Deliver ==
    /\ main_pc = "idle"
    /\ events # <<>>
    /\ delivered' = Append(delivered, Head(events))
    /\ events' = Tail(events)
    /\ UNCHANGED <<workers, procs, current_worker, main_pc, last_start,
                 cmd_vars, env_vars, plug_vars, win>>

--------------------------------------------------------------------------

\* no command builder run of its own
CmdIdle ==
    /\ bc_self = BuildWorker_init(BuildConfig, <<>>)
    /\ bc_env = HostEnv
    /\ bc_pc = "done"
    /\ bc_out = NoOutcome

Init ==
    /\ BuilderInit
    /\ CmdIdle
    /\ PlugIdle
    /\ WinIdle
    /\ EnvIdle

\* one build followed in full: start_build is called at any time, and the
\* call that finds no worker yet is the one accepted
Next ==
    \/ /\ \E config \in BuildConfigs : StartBuild(config)
       /\ workers = <<>> \/ start_rejected
    \/ CancelBuild
    \/ CbCancel
    \/ CbTerminate
    \/ CbWait
    \/ Deliver
    \/ \E w \in Workers : WorkerCancel(w)
    \/ \E w \in Workers : RunPrepare(w)
    \/ \E w \in Workers : RunBuildCommand(w)
    \/ \E w \in Workers : RunEcho(w)
    \/ \E w \in Workers : RunBuilding(w)
    \/ \E w \in Workers : StreamSpawn(w, MaxLines)
    \/ \E w \in Workers : StreamRead(w)
    \/ \E w \in Workers : StreamWait(w)
    \/ \E w \in Workers : RunCheck(w)
    \/ \E w \in Workers : RunEmitResult(w)
    \/ \E w \in Workers : RunExcept(w)
    \/ \E w \in Workers : ThreadFinish(w)
    \/ \E w \in Workers : ThreadKilled(w)
    \/ \E w \in Workers : ProcWrite(w)
    \/ \E w \in Workers : ProcExit(w)

Spec == Init /\ [][Next]_vars

\* a Builder used for several builds in a row through its own methods only
\* (as the main window uses it), of processes that write little
SeqNext ==
    \/ /\ \E config \in SeqConfigs : StartBuild(config)
       /\ Len(workers) < MaxBuilds \/ start_rejected
    \/ CancelBuild
    \/ CbCancel
    \/ CbTerminate
    \/ CbWait
    \/ Deliver
    \/ \E w \in Workers : RunPrepare(w)
    \/ \E w \in Workers : RunBuildCommand(w)
    \/ \E w \in Workers : RunEcho(w)
    \/ \E w \in Workers : RunBuilding(w)
    \/ \E w \in Workers : StreamSpawn(w, QuietLines)
    \/ \E w \in Workers : StreamRead(w)
    \/ \E w \in Workers : StreamWait(w)
    \/ \E w \in Workers : RunCheck(w)
    \/ \E w \in Workers : RunEmitResult(w)
    \/ \E w \in Workers : RunExcept(w)
    \/ \E w \in Workers : ThreadFinish(w)
    \/ \E w \in Workers : ThreadKilled(w)
    \/ \E w \in Workers : ProcExit(w)

SeqSpec == Init /\ [][SeqNext]_vars

--------------------------------------------------------------------------
(* The process runners on their own: run_command_stream with any consumer, *)
(* and run_command                                                         *)

\* the lines a process writes: text ending in its newline
Lines == {<<"b", " ", "\n">>, <<"\n">>}

\* str(e) of the exception Popen / subprocess.run raises when it cannot spawn
SpawnErrors == {"No such file or directory", "Permission denied"}

\* str(e) of the exception a consumer raises
ConsumerError == "consumer failed"

\* ''.join(lines)
RECURSIVE join(_)
join(lines) == IF lines = <<>> THEN <<>> ELSE Head(lines) \o join(Tail(lines))

\* timeout=None, or a number of seconds
NoTimeout == [set |-> FALSE, seconds |-> 0]
Timeouts == {NoTimeout, [set |-> TRUE, seconds |-> 5], [set |-> TRUE, seconds |-> 30]}

\* what subprocess.run(...) did in a buffered run: "completed" (it returned a
\* CompletedProcess), "timeout" (it raised TimeoutExpired, whose stdout is
\* None or the text captured so far) or "oserror" (it could not spawn)
NoOutcomeRun ==
    [kind |-> "none", returncode |-> 0, stdout |-> <<>>, stdout_none |-> FALSE,
     stderr |-> ""]

Outcomes(timeout) ==
    {[NoOutcomeRun EXCEPT !.kind = "completed", !.returncode = rc,
                          !.stdout = out, !.stderr = err] :
        rc \in {0, 1}, out \in {<<>>, <<" ", "Python 3.11", "\n">>},
        err \in {"", "error text"}}
    \cup (IF timeout.set
          THEN {[NoOutcomeRun EXCEPT !.kind = "timeout", !.stdout = out,
                                     !.stdout_none = none] :
                    out \in {<<>>, <<"partial", "\n">>}, none \in BOOLEAN}
          ELSE {})
    \cup {[NoOutcomeRun EXCEPT !.kind = "oserror", !.stderr = e] : e \in SpawnErrors}

NoProc ==
    [state |-> "none",    \* "none", "alive" or "exited"
     script |-> <<>>,     \* the lines it has yet to write
     pipe |-> <<>>,       \* written and not yet read
     written |-> <<>>,    \* every line written so far
     returncode |-> 0]

\* a call of the runner, with the process it spawns
NoRun ==
    [mode |-> "none",          \* "stream" or "buffered"
     command |-> <<>>,
     relay |-> FALSE,          \* the consumer emits output_line(line)
     raise_at |-> 0,           \* the consumer raises on this call; 0: on none
     timeout |-> NoTimeout,
     pc |-> "none",
     calls |-> <<>>,           \* the arguments the consumer was called with
     stdout_lines |-> <<>>,
     result |-> NoResult,
     outcome |-> NoOutcomeRun,
     \* history, read by the properties only
     proc_at_return |-> "",    \* the process's state when the result came back
     proc |-> NoProc]

\* run_command_stream(command, output_callback) about to begin
StreamCall(command, relay, raise_at) ==
    [NoRun EXCEPT !.mode = "stream", !.command = command, !.relay = relay,
                  !.raise_at = raise_at, !.pc = "spawn"]

\* run_command(command, timeout=timeout) about to begin
BufferedCall(command, timeout) ==
    [NoRun EXCEPT !.mode = "buffered", !.command = command,
                  !.timeout = timeout, !.pc = "call"]

\* run_command_stream, lines 96-102: the handler of "except Exception"
stream_except(e) == ProcessResult(-1, <<>>, e, FALSE)

stream_result_succeeds(returncode, stdout_lines) ==
    ProcessResult(returncode, join(stdout_lines), "", TRUE)

\* run_command_stream, lines 90-95
stream_result(returncode, stdout_lines) ==
    ProcessResult(returncode, join(stdout_lines), "", returncode = 0)

\* the command is "python -m venv <root>"
IsVenvCreate(command) ==
    Len(command) = 4 /\ command[2] = "-m" /\ command[3] = "venv"

\* run_command_stream, lines 71-80: Popen starts a process that will write
\* some lines, or raises and the handler builds the result
SrSpawn(r) ==
    /\ runs[r].mode = "stream" /\ runs[r].pc = "spawn"
    /\ \/ \E script \in SeqsUpTo(Lines, MaxLines) :
            runs' = [runs EXCEPT
                ![r].pc = "read",
                ![r].proc = [NoProc EXCEPT !.state = "alive", !.script = script]]
       \/ \E e \in SpawnErrors :
            runs' = [runs EXCEPT ![r].pc = "returned",
                                 ![r].result = stream_except(e),
                                 ![r].proc_at_return = "none"]
    /\ UNCHANGED <<vworkers, venv_current, host, info, build_vars, cmd_vars, plug_vars, win>>

keep_line_nonblank(line) == rstrip(line) # <<>>

\* run_command_stream, line 84: "if line"
keep_line(line) == line # <<>>

\* run_command_stream, lines 83-86: one readline.  A line is kept and its
\* rstrip() handed to the consumer, which returns or raises (and then the
\* handler of lines 96-102 returns at once); '' ends the loop
SrRead(r) ==
    /\ runs[r].mode = "stream" /\ runs[r].pc = "read"
    /\ \/ /\ runs[r].proc.pipe # <<>>
          /\ LET line == Head(runs[r].proc.pipe)
                 kept == keep_line(line)
                 raises == kept /\ runs[r].raise_at = Len(runs[r].calls) + 1
             IN  /\ runs' = [runs EXCEPT
                        ![r].proc.pipe = Tail(@),
                        ![r].stdout_lines = IF kept THEN Append(@, line) ELSE @,
                        ![r].calls = IF kept THEN Append(@, rstrip(line)) ELSE @,
                        ![r].pc = IF raises THEN "returned" ELSE "read",
                        ![r].result = IF raises THEN stream_except(ConsumerError)
                                      ELSE @,
                        ![r].proc_at_return = IF raises THEN runs[r].proc.state
                                              ELSE @]
                 /\ events' = IF kept /\ runs[r].relay /\ ~raises
                              THEN Emit(r, "output_line", <<"line", rstrip(line)>>)
                              ELSE events
       \/ /\ runs[r].proc.pipe = <<>> /\ runs[r].proc.state = "exited"
          /\ runs' = [runs EXCEPT ![r].pc = "wait"]
          /\ UNCHANGED events
    /\ UNCHANGED <<vworkers, venv_current, host, info, workers, procs,
                   current_worker, main_pc, last_start, delivered, cmd_vars, plug_vars, win>>

\* run_command_stream, lines 88-95: process.wait() and the result returned
SrWait(r) ==
    /\ runs[r].mode = "stream" /\ runs[r].pc = "wait"
    /\ runs[r].proc.state = "exited"
    /\ runs' = [runs EXCEPT
          ![r].pc = "returned",
          ![r].result = stream_result(runs[r].proc.returncode,
                                      runs[r].stdout_lines),
          ![r].proc_at_return = runs[r].proc.state]
    /\ UNCHANGED <<vworkers, venv_current, host, info, build_vars, cmd_vars, plug_vars, win>>

\* the spawned process writes its next line
PWrite(r) ==
    /\ runs[r].proc.state = "alive" /\ runs[r].proc.script # <<>>
    /\ runs' = [runs EXCEPT
          ![r].proc.script = Tail(@),
          ![r].proc.pipe = Append(@, Head(runs[r].proc.script)),
          ![r].proc.written = Append(@, Head(runs[r].proc.script))]
    /\ UNCHANGED <<vworkers, venv_current, host, info, build_vars, cmd_vars, plug_vars, win>>

\* the environment root with the interpreter and the installer of the
\* platform's layout, as "python -m venv" leaves it
VenvLayout(platform, root) ==
    IF platform = "win32"
    THEN [dirs |-> {root, root \o <<"Scripts">>},
          files |-> {root \o <<"Scripts", "python.exe">>,
                     root \o <<"Scripts", "pip.exe">>}]
    ELSE [dirs |-> {root, root \o <<"bin">>},
          files |-> {root \o <<"bin", "python">>, root \o <<"bin", "pip">>}]

\* the spawned process exits, with code 0 or not; "python -m venv" that
\* exits with 0 has made the environment
PExit(r) ==
    /\ runs[r].proc.state = "alive" /\ runs[r].proc.script = <<>>
    /\ \E rc \in {0, 1} :
          /\ runs' = [runs EXCEPT ![r].proc.state = "exited",
                                  ![r].proc.returncode = rc]
          /\ host' = IF rc = 0 /\ IsVenvCreate(runs[r].command)
                     THEN LET made == VenvLayout(host.platform, runs[r].command[4])
                          IN  [host EXCEPT !.dirs = @ \cup made.dirs,
                                           !.files = @ \cup made.files]
                     ELSE host
    /\ UNCHANGED <<vworkers, venv_current, info, build_vars, cmd_vars, plug_vars, win>>

\* "e.stdout or ''"
or_empty(is_none, text) == IF is_none THEN <<>> ELSE text

\* f"Command timed out after {timeout} seconds"
timeout_message(seconds) ==
    "Command timed out after " \o ToString(seconds) \o " seconds"

run_command_reraises(outcome, timeout) ==
    CASE outcome.kind = "completed" ->
            [raised |-> FALSE,
             result |-> ProcessResult(outcome.returncode, outcome.stdout,
                                      outcome.stderr, outcome.returncode = 0)]
      [] outcome.kind = "timeout" ->
            [raised |-> FALSE,
             result |-> ProcessResult(-1, or_empty(outcome.stdout_none, outcome.stdout),
                                      timeout_message(timeout.seconds), FALSE)]
      [] outcome.kind = "oserror" -> [raised |-> TRUE, result |-> NoResult]

\* run_command, lines 31-60: the ProcessResult returned for what
\* subprocess.run did, and whether anything is raised to the caller
run_command(outcome, timeout) ==
    CASE outcome.kind = "completed" ->
            [raised |-> FALSE,
             result |-> ProcessResult(outcome.returncode, outcome.stdout,
                                      outcome.stderr, outcome.returncode = 0)]
      [] outcome.kind = "timeout" ->
            [raised |-> FALSE,
             result |-> ProcessResult(-1, or_empty(outcome.stdout_none, outcome.stdout),
                                      timeout_message(timeout.seconds), FALSE)]
      [] outcome.kind = "oserror" ->
            [raised |-> FALSE,
             result |-> ProcessResult(-1, <<>>, outcome.stderr, FALSE)]

\* one call of run_command
RunCommand(r) ==
    /\ runs[r].mode = "buffered" /\ runs[r].pc = "call"
    /\ \E outcome \in Outcomes(runs[r].timeout) :
          LET out == run_command(outcome, runs[r].timeout)
          IN  runs' = [runs EXCEPT
                  ![r].pc = IF out.raised THEN "raised" ELSE "returned",
                  ![r].outcome = outcome,
                  ![r].result = out.result]
    /\ UNCHANGED <<vworkers, venv_current, host, info, build_vars, cmd_vars, plug_vars, win>>

\* a runner called directly: a streaming run whose consumer raises on some
\* call or on none, or a buffered run with or without a timeout
StreamInit ==
    /\ BuilderInit
    /\ CmdIdle
    /\ PlugIdle
    /\ WinIdle
    /\ vworkers = <<>>
    /\ venv_current = 0
    /\ host = [platform |-> "linux", files |-> {}, dirs |-> {}]
    /\ info = <<>>
    /\ \/ \E k \in 0..MaxLines : runs = <<StreamCall(<<S("tool")>>, FALSE, k)>>
       \/ \E t \in Timeouts : runs = <<BufferedCall(<<S("tool")>>, t)>>

StreamNext ==
    \/ \E r \in DOMAIN runs : SrSpawn(r)
    \/ \E r \in DOMAIN runs : SrRead(r)
    \/ \E r \in DOMAIN runs : SrWait(r)
    \/ \E r \in DOMAIN runs : PWrite(r)
    \/ \E r \in DOMAIN runs : PExit(r)
    \/ \E r \in DOMAIN runs : RunCommand(r)

StreamSpec == StreamInit /\ [][StreamNext]_vars

--------------------------------------------------------------------------
(* Plugin registry: PluginLoader over a directory of plugin files *)

MaxFiles == 3    \* most files in the plugins directory
MaxReloads == 1  \* reload_plugins calls

\* A class found in a plugin module: its name, the plugin base classes among
\* its ancestors (itself included), its NAME and PLUGIN_TYPE attributes,
\* whether calling it gives an instance (an abstract class or a raising
\* __init__ does not), and the enabled flag its get_info() reports.
Class(cls, bases, NAME, PLUGIN_TYPE, instantiable, enabled) ==
    [cls |-> cls, bases |-> bases, NAME |-> NAME, PLUGIN_TYPE |-> PLUGIN_TYPE,
     instantiable |-> instantiable, enabled |-> enabled]

PluginBase ==
    Class("PluginBase", {"PluginBase"}, "Base Plugin", "post_build", FALSE, TRUE)
BuildProcessorPlugin ==
    Class("BuildProcessorPlugin", {"PluginBase", "BuildProcessorPlugin"},
          "Base Plugin", "build_processor", FALSE, TRUE)
PostBuildPlugin ==
    Class("PostBuildPlugin", {"PluginBase", "PostBuildPlugin"},
          "Base Plugin", "post_build", FALSE, TRUE)

\* a concrete class deriving from one of the base classes; PLUGIN_TYPE is
\* inherited unless the class sets it
Derived(cls, base, NAME) ==
    Class(cls, base.bases, NAME, base.PLUGIN_TYPE, TRUE, TRUE)

\* a module file: its name as prefix, stem and suffix, the classes in its
\* namespace ordered by name as inspect.getmembers gives them, and whether
\* executing the module raises
File(name, classes, exec_raises) ==
    [name |-> name, classes |-> classes, exec_raises |-> exec_raises]

ZipFile ==
    File(<<"zip_output", ".py">>,
         <<PostBuildPlugin, Derived("ZipOutputPlugin", PostBuildPlugin, "Zip")>>,
         FALSE)
SignFile ==
    File(<<"sign", ".py">>,
         <<[Derived("Off", PostBuildPlugin, "Off") EXCEPT !.enabled = FALSE],
           Derived("Sign", PostBuildPlugin, "Sign")>>,
         FALSE)
MixedFile ==
    File(<<"mixed", ".py">>,
         <<[Derived("Abstract", PostBuildPlugin, "Abstract") EXCEPT !.instantiable = FALSE],
           Derived("Notify", PostBuildPlugin, "Notify"),
           Class("Util", {}, "", "", TRUE, TRUE)>>,
         FALSE)
DupFile ==
    File(<<"archive", ".py">>,
         <<Derived("Archiver", PostBuildPlugin, "Zip")>>, FALSE)
ToolsFile ==
    File(<<"tools", ".py">>,
         <<Derived("Generic", PluginBase, "Generic"),
           Derived("Proc", BuildProcessorPlugin, "Proc")>>,
         FALSE)
BrokenFile == File(<<"broken", ".py">>, <<>>, TRUE)
PrivateFile ==
    File(<<"_", "private", ".py">>,
         <<Derived("Hidden", PostBuildPlugin, "Hidden")>>, FALSE)
NotesFile == File(<<"notes", ".txt">>, <<>>, FALSE)

Files == {ZipFile, SignFile, MixedFile, DupFile, ToolsFile, BrokenFile,
          PrivateFile, NotesFile}
PluginNames == {"Zip", "Sign", "Notify", "Generic", "Proc", "Off", "Hidden", "Ghost"}
Outcomes3 == {"true", "false", "raise"}

\* every order of the elements of a set
RECURSIVE Orders(_)
Orders(set) ==
    IF set = {} THEN {<<>>}
    ELSE UNION {{<<x>> \o s : s \in Orders(set \ {x})} : x \in set}

\* plugins_dir.glob("*.py"), in whatever order the file system lists it
glob(files) == Orders({f \in files : f.name[Len(f.name)] = ".py"})

\* the position of a name in the table, 0 if it has none
index_of(table, name) ==
    IF \E i \in DOMAIN table : table[i].name = name
    THEN CHOOSE i \in DOMAIN table : table[i].name = name
    ELSE 0

put_appends(table, name, value) == Append(table, [name |-> name, value |-> value])

\* dict.__setitem__: a new key goes last, a known key keeps its place
put(table, name, value) ==
    IF index_of(table, name) = 0
    THEN Append(table, [name |-> name, value |-> value])
    ELSE [table EXCEPT ![index_of(table, name)].value = value]

\* dict.get: <<value>>, or <<>> for None
get(table, name) ==
    IF index_of(table, name) = 0 THEN <<>>
    ELSE <<table[index_of(table, name)].value>>

\* dict.values()
dict_values(table) == [i \in DOMAIN table |-> table[i].value]

clear_nothing(table) == table

\* dict.clear
clear(table) == <<>>

\* issubclass(obj, PluginBase) and obj not in (PluginBase, BuildProcessorPlugin, PostBuildPlugin)
is_plugin_class(obj) ==
    /\ "PluginBase" \in obj.bases
    /\ obj \notin {PluginBase, BuildProcessorPlugin, PostBuildPlugin}

\* obj(): the instance, made in the load numbered gen from the file named
new_instance(obj, gen, file) == [class |-> obj, gen |-> gen, file |-> file.name]

\* _load_plugin_file, lines 143-151: the loop over the module's classes; a
\* class that cannot be instantiated is logged and passed over
RECURSIVE register_classes(_, _, _, _)
register_classes(table, classes, gen, file) ==
    IF classes = <<>> THEN table
    ELSE LET obj == Head(classes)
             next == IF is_plugin_class(obj) /\ obj.instantiable
                     THEN put(table, obj.NAME, new_instance(obj, gen, file))
                     ELSE table
         IN  register_classes(next, Tail(classes), gen, file)

\* _load_plugin_file: the table afterwards, or the exception of exec_module
load_plugin_file(table, file, gen) ==
    IF file.exec_raises
    THEN [raised |-> TRUE, table |-> table]
    ELSE [raised |-> FALSE,
          table |-> register_classes(table, file.classes, gen, file)]

load_one_aborting(table, file, gen) ==
    IF file.name[1] = "_"
    THEN [raised |-> FALSE, table |-> table]
    ELSE load_plugin_file(table, file, gen)

\* _load_plugins without lines 125-126: no file is skipped for its name
load_one_private(table, file, gen) ==
    [raised |-> FALSE, table |-> load_plugin_file(table, file, gen).table]

\* _load_plugins, lines 125-131: one turn of the loop; a file whose name
\* starts with "_" is skipped and an exception of the file is logged
load_one(table, file, gen) ==
    IF file.name[1] = "_"
    THEN [raised |-> FALSE, table |-> table]
    ELSE [raised |-> FALSE, table |-> load_plugin_file(table, file, gen).table]

\* _load_plugins, lines 125-131: the whole loop
RECURSIVE load_plugins(_, _, _)
load_plugins(table, files, gen) ==
    IF files = <<>> THEN [raised |-> FALSE, table |-> table]
    ELSE LET out == load_one(table, Head(files), gen)
         IN  IF out.raised THEN out
             ELSE load_plugins(out.table, Tail(files), gen)

\* PluginLoader.get_plugin
get_plugin(table, name) == get(table, name)

\* PluginLoader.get_post_build_plugins
get_post_build_plugins(table) ==
    SelectSeq(dict_values(table), LAMBDA p : "PostBuildPlugin" \in p.class.bases)

\* PluginBase.get_info: the enabled flag of the PluginInfo
get_info(plugin) ==
    [name |-> plugin.class.NAME, plugin_type |-> plugin.class.PLUGIN_TYPE,
     enabled |-> plugin.class.enabled]

execute_plugin_propagates(table, name, outcome) ==
    LET plugin == get_plugin(table, name)
    IN  IF plugin # <<>>
        THEN [value |-> outcome = "true", raised |-> outcome = "raise",
              ran |-> plugin]
        ELSE [value |-> FALSE, raised |-> FALSE, ran |-> <<>>]

\* PluginLoader.execute_plugin, where the plugin's execute returns True or
\* False or raises: the value returned, whether anything is raised to the
\* caller, and the instances whose execute was called
execute_plugin(table, name, outcome) ==
    LET plugin == get_plugin(table, name)
    IN  IF plugin # <<>>
        THEN [value |-> outcome = "true", raised |-> FALSE, ran |-> plugin]
        ELSE [value |-> FALSE, raised |-> FALSE, ran |-> <<>>]

RECURSIVE run_post_build_stops(_, _, _, _)
run_post_build_stops(table, todo, outcome, acc) ==
    IF todo = <<>> THEN acc
    ELSE LET plugin == Head(todo)
             out == execute_plugin(table, plugin.class.NAME, outcome[plugin.class.NAME])
         IN  IF get_info(plugin).enabled
             THEN IF out.value
                  THEN run_post_build_stops(table, Tail(todo), outcome,
                          [results |-> put(acc.results, plugin.class.NAME, out.value),
                           ran |-> acc.ran \o out.ran, raised |-> FALSE])
                  ELSE [results |-> put(acc.results, plugin.class.NAME, out.value),
                        ran |-> acc.ran \o out.ran, raised |-> FALSE]
             ELSE run_post_build_stops(table, Tail(todo), outcome, acc)

\* execute_post_build_plugins, lines 187-190: the loop over the selected
\* plugins, outcome giving what each plugin's execute does
RECURSIVE run_post_build(_, _, _, _)
run_post_build(table, todo, outcome, acc) ==
    IF todo = <<>> THEN acc
    ELSE LET plugin == Head(todo)
             out == execute_plugin(table, plugin.class.NAME, outcome[plugin.class.NAME])
         IN  IF get_info(plugin).enabled
             THEN IF out.raised
                  THEN [acc EXCEPT !.ran = acc.ran \o out.ran, !.raised = TRUE]
                  ELSE run_post_build(table, Tail(todo), outcome,
                          [results |-> put(acc.results, plugin.class.NAME, out.value),
                           ran |-> acc.ran \o out.ran, raised |-> FALSE])
             ELSE run_post_build(table, Tail(todo), outcome, acc)

\* PluginLoader.execute_post_build_plugins
execute_post_build_plugins(table, outcome) ==
    run_post_build(table, get_post_build_plugins(table), outcome,
                   [results |-> <<>>, ran |-> <<>>, raised |-> FALSE])

\* the names of the table's entries
Keys(table) == {table[i].name : i \in DOMAIN table}

\* a call is made while _load_plugins is between two files
Reloading == reload.pc = "loading"

\* PluginLoader.get_plugin called
GetPlugin(name) ==
    /\ plog' = [NoCall EXCEPT !.op = "get_plugin", !.name = name,
                              !.ran = get_plugin(plugins, name),
                              !.seen = plugins, !.overlap = Reloading]
    /\ UNCHANGED <<pdir, plugins, reload, build_vars, cmd_vars, env_vars, win>>

\* PluginLoader.execute_plugin called; the plugin succeeds, fails or raises
ExecutePlugin(name, outcome) ==
    /\ LET out == execute_plugin(plugins, name, outcome)
       IN  plog' = [NoCall EXCEPT !.op = "execute_plugin", !.name = name,
                                  !.outcome = outcome, !.ran = out.ran,
                                  !.value = out.value, !.raised = out.raised,
                                  !.seen = plugins, !.overlap = Reloading]
    /\ UNCHANGED <<pdir, plugins, reload, build_vars, cmd_vars, env_vars, win>>

\* the plugins execute_post_build_plugins will call
Selected(table) ==
    SelectSeq(get_post_build_plugins(table), LAMBDA p : get_info(p).enabled)

\* PluginLoader.execute_post_build_plugins called; each plugin succeeds,
\* fails or raises
ExecutePostBuild ==
    /\ \E outcome \in [{p.class.NAME : p \in Range(Selected(plugins))} -> Outcomes3] :
          LET out == execute_post_build_plugins(plugins, outcome)
          IN  plog' = [NoCall EXCEPT !.op = "execute_post_build_plugins",
                                     !.outcome = outcome, !.ran = out.ran,
                                     !.results = out.results,
                                     !.raised = out.raised,
                                     !.seen = plugins, !.overlap = Reloading]
    /\ UNCHANGED <<pdir, plugins, reload, build_vars, cmd_vars, env_vars, win>>

\* reload_plugins, line 195, and _load_plugins up to its loop: the table is
\* emptied; a missing directory is created and nothing is loaded
ReloadClear ==
    /\ reload.pc = "idle" /\ reload.gen < MaxReloads
    /\ plugins' = clear(plugins)
    /\ IF ~pdir.exists
       THEN /\ pdir' = [pdir EXCEPT !.exists = TRUE]
            /\ reload' = [reload EXCEPT !.gen = @ + 1, !.order = <<>>, !.todo = <<>>,
                                        !.dir = {}, !.prev_dir = reload.dir,
                                        !.old = plugins]
       ELSE /\ pdir' = pdir
            /\ \E order \in glob(pdir.files) :
                  reload' = [pc |-> IF order = <<>> THEN "idle" ELSE "loading",
                             todo |-> order, order |-> order, dir |-> pdir.files,
                             prev_dir |-> reload.dir, old |-> plugins,
                             gen |-> reload.gen + 1]
    /\ plog' = NoCall
    /\ UNCHANGED <<build_vars, cmd_vars, env_vars, win>>

\* _load_plugins: the next file of the loop
LoadFile ==
    /\ reload.pc = "loading"
    /\ LET out == load_one(plugins, Head(reload.todo), reload.gen)
       IN  /\ plugins' = out.table
           /\ reload' = [reload EXCEPT
                  !.todo = IF out.raised THEN <<>> ELSE Tail(@),
                  !.pc = IF out.raised THEN "raised"
                         ELSE IF Tail(reload.todo) = <<>> THEN "idle" ELSE "loading"]
    /\ plog' = NoCall
    /\ UNCHANGED <<pdir, build_vars, cmd_vars, env_vars, win>>

\* somebody adds a file to the plugins directory, or removes one
AddFile(f) ==
    /\ reload.pc = "idle" /\ pdir.exists /\ reload.gen < MaxReloads
    /\ f \notin pdir.files /\ Cardinality(pdir.files) < MaxFiles
    /\ pdir' = [pdir EXCEPT !.files = @ \cup {f}]
    /\ plog' = NoCall
    /\ UNCHANGED <<plugins, reload, build_vars, cmd_vars, env_vars, win>>

RemoveFile(f) ==
    /\ reload.pc = "idle" /\ reload.gen < MaxReloads
    /\ f \in pdir.files
    /\ pdir' = [pdir EXCEPT !.files = @ \ {f}]
    /\ plog' = NoCall
    /\ UNCHANGED <<plugins, reload, build_vars, cmd_vars, env_vars, win>>

\* somebody removes the plugins directory
RemoveDir ==
    /\ reload.pc = "idle" /\ pdir.exists /\ reload.gen < MaxReloads
    /\ pdir' = [exists |-> FALSE, files |-> {}]
    /\ plog' = NoCall
    /\ UNCHANGED <<plugins, reload, build_vars, cmd_vars, env_vars, win>>

\* the plugins directories
Dirs == {d \in SUBSET Files : Cardinality(d) <= MaxFiles}

\* PluginLoader.__init__ over some plugins directory
PluginInit ==
    /\ BuilderInit
    /\ CmdIdle
    /\ EnvIdle
    /\ plog = NoCall
    /\ WinIdle
    /\ \/ /\ pdir = [exists |-> TRUE, files |-> {}]
          /\ plugins = <<>>
          /\ reload = NoReload
       \/ \E d \in Dirs : \E order \in glob(d) :
             /\ pdir = [exists |-> TRUE, files |-> d]
             /\ plugins = load_plugins(<<>>, order, 0).table
             /\ reload = [NoReload EXCEPT !.order = order, !.dir = d]

\* a loader used after construction
PluginNext ==
    \/ \E name \in PluginNames : GetPlugin(name)
    \/ \E name \in PluginNames : \E outcome \in Outcomes3 : ExecutePlugin(name, outcome)
    \/ ExecutePostBuild

PluginSpec == PluginInit /\ [][PluginNext]_vars

\* the files that come and go, and the names asked for, while a loader reloads
ReloadFiles == {ZipFile, DupFile, MixedFile, BrokenFile, PrivateFile}
ReloadNames == {"Zip", "Ghost"}

\* PluginLoader.__init__ over a directory of such files
ReloadInit ==
    /\ BuilderInit
    /\ CmdIdle
    /\ EnvIdle
    /\ plog = NoCall
    /\ WinIdle
    /\ \E d \in Dirs \cap SUBSET ReloadFiles : \E order \in glob(d) :
          /\ pdir = [exists |-> TRUE, files |-> d]
          /\ plugins = load_plugins(<<>>, order, 0).table
          /\ reload = [NoReload EXCEPT !.order = order, !.dir = d]

\* a loader whose directory changes, which is asked to reload, and which is
\* used also while it reloads; one call is looked at between two changes
ReloadNext ==
    \/ ReloadClear
    \/ LoadFile
    \/ \E f \in ReloadFiles : AddFile(f)
    \/ \E f \in ReloadFiles : RemoveFile(f)
    \/ RemoveDir
    \/ /\ plog = NoCall
       /\ \E name \in ReloadNames : GetPlugin(name)
    \/ /\ plog = NoCall
       /\ \E name \in ReloadNames : \E outcome \in Outcomes3 : ExecutePlugin(name, outcome)
    \/ /\ plog = NoCall
       /\ ExecutePostBuild

ReloadSpec == ReloadInit /\ [][ReloadNext]_vars

--------------------------------------------------------------------------
(* MainWindow: the build controls *)

\* the configuration _get_build_config reads from a form that passed
\* _validate_inputs
WinConfig ==
    [BuildConfig EXCEPT !.script_path = S("app.py"), !.output_dir = S("out")]

\* MainWindow._start_build, lines 919-923
show_building(ui) ==
    [ui EXCEPT !.build_btn = FALSE, !.cancel_btn = TRUE, !.progress_bar = TRUE]

\* MainWindow._on_build_finished: the controls are reset and, for a SUCCESS,
\* _run_post_build_plugins is called for the build
on_build_finished(ui, w, result) ==
    [ui EXCEPT !.build_btn = TRUE, !.cancel_btn = FALSE, !.progress_bar = FALSE,
               !.post_runs = IF result.status = SUCCESS THEN Append(@, w) ELSE @]

\* MainWindow._start_build, from the button, the menu or F5: nothing happens
\* while a build is running or when the form is not valid
MwStartBuild(valid) ==
    /\ main_pc = "idle"
    /\ IF is_building \/ ~valid
       THEN UNCHANGED <<workers, procs, current_worker, last_start, win>>
       ELSE /\ win' = show_building(win)
            /\ IF start_rejected
               THEN /\ last_start' = "RuntimeError"
                    /\ UNCHANGED <<workers, procs, current_worker>>
               ELSE /\ workers' = Append(workers, NewWorker(WinConfig, <<>>))
                    /\ procs' = Append(procs, NoProcess)
                    /\ current_worker' = Len(workers) + 1
                    /\ last_start' = "started"
    /\ UNCHANGED <<main_pc, events, delivered, cmd_vars, env_vars, plug_vars>>

\* MainWindow._cancel_build: Builder.cancel_build is entered if is_building()
MwCancelBuild == CancelBuild

\* the event loop hands the oldest queued emission to its slot:
\* _on_build_output, _on_build_status or _on_build_finished
MwDeliver ==
    /\ main_pc = "idle"
    /\ events # <<>>
    /\ delivered' = Append(delivered, Head(events))
    /\ events' = Tail(events)
    /\ win' = IF Head(events).sig = "build_finished"
              THEN on_build_finished(win, Head(events).w, Head(events).arg)
              ELSE win
    /\ UNCHANGED <<workers, procs, current_worker, main_pc, last_start,
                   cmd_vars, env_vars, plug_vars>>

\* what the threads, the processes and the event loop do by themselves; the
\* script path has passed _validate_inputs, so _build_command does not raise
\* and the handler of run() is not entered
WinInternal ==
    \/ CbCancel
    \/ CbTerminate
    \/ CbWait
    \/ MwDeliver
    \/ \E w \in Workers : RunPrepare(w)
    \/ \E w \in Workers : RunBuildCommand(w)
    \/ \E w \in Workers : RunEcho(w)
    \/ \E w \in Workers : RunBuilding(w)
    \/ \E w \in Workers : StreamSpawn(w, QuietLines)
    \/ \E w \in Workers : StreamRead(w)
    \/ \E w \in Workers : StreamWait(w)
    \/ \E w \in Workers : RunCheck(w)
    \/ \E w \in Workers : RunEmitResult(w)
    \/ \E w \in Workers : ThreadFinish(w)
    \/ \E w \in Workers : ThreadKilled(w)
    \/ \E w \in Workers : ProcExit(w)

\* the window in use: the user starts and cancels builds at any time
WinNext ==
    \/ /\ \E valid \in BOOLEAN : MwStartBuild(valid)
       /\ Len(workers) < MaxBuilds \/ is_building
    \/ MwCancelBuild
    \/ WinInternal

WinSpec == Init /\ [][WinNext]_vars

\* the same where no thread, process or queued emission waits for ever
WinFairSpec == WinSpec /\ WF_vars(WinInternal)

--------------------------------------------------------------------------
(* Properties *)

\* every emission so far, in the order emitted
AllEvents == delivered \o events

\* the build_finished emissions of worker w
FinishedOf(w) ==
    SelectSeq(AllEvents, LAMBDA e : e.w = w /\ e.sig = "build_finished")

\* the listeners have received a build_finished of worker w with this status
GotFinished(w, status) ==
    \E i \in DOMAIN delivered :
        /\ delivered[i].w = w
        /\ delivered[i].sig = "build_finished"
        /\ delivered[i].arg.status = status

Running == {w \in Workers : workers[w].thread = "running"}

\* C1: a start_build that finds the current worker running ends in the
\* RuntimeError and creates nothing, a worker is created only when the
\* current one is not running, and so at no time does a Builder have more
\* than one running BuildWorker.
C1_OneRunningWorker ==
    /\ [](Cardinality(Running) <= 1)
    /\ [][(/\ current_worker # 0
           /\ workers[current_worker].thread = "running"
           /\ (last_start' # last_start \/ Len(workers') # Len(workers)))
          => (/\ last_start' = "RuntimeError"
              /\ Len(workers') = Len(workers)
              /\ current_worker' = current_worker)]_vars

C1_Witness ==
    /\ Len(workers) = 2
    /\ workers[1].thread = "terminated"
    /\ workers[2].thread = "running"
    /\ last_start = "RuntimeError"

\* C2: no worker emits build_finished more than once, every result emitted
\* has status success, failed or cancelled, and a worker whose run() returned
\* has emitted exactly one.
C2_ResultOnce ==
    \A w \in Workers :
        /\ Len(FinishedOf(w)) <= 1
        /\ \A i \in DOMAIN FinishedOf(w) :
              FinishedOf(w)[i].arg.status \in {SUCCESS, FAILED, CANCELLED}
        /\ workers[w].thread = "finished" => Len(FinishedOf(w)) = 1

C2_Witness ==
    \E w \in Workers :
        /\ workers[w].thread = "finished"
        /\ workers[w].cancelled
        /\ GotFinished(w, CANCELLED)

\* C3: every started build delivers a terminal BuildResult to its
\* on_finished listener: once the worker thread has ended, cancel_build has
\* returned and the event loop has nothing left to deliver, the listener has
\* received a build_finished of that build.
C3_EveryBuildDelivers ==
    \A w \in Workers :
        (workers[w].thread # "running" /\ main_pc = "idle" /\ events = <<>>)
        => \E i \in DOMAIN delivered :
              delivered[i].w = w /\ delivered[i].sig = "build_finished"

\* C4 as claimed: a cancel() that comes before the process has written
\* anything (and before the build has ended) makes the terminal result
\* cancelled, for every configuration.
C4_Original ==
    \A w \in Workers :
        workers[w].cancel_when \in {"quiet_unread", "quiet"}
        => \A i \in DOMAIN FinishedOf(w) :
              FinishedOf(w)[i].arg.status = CANCELLED

\* C4: for a configuration with a script path, a cancel() that comes before
\* the process has written anything and before run() reads the flag on line
\* 150 makes the terminal result cancelled, whatever the exit code.
C4_CancelBeforeOutput ==
    \A w \in Workers :
        (/\ workers[w].cancel_when = "quiet_unread"
         /\ workers[w].self.config.script_path # <<>>)
        => \A i \in DOMAIN FinishedOf(w) :
              FinishedOf(w)[i].arg.status = CANCELLED

C4_Witness ==
    \E w \in Workers :
        /\ workers[w].cancel_when = "quiet_unread"
        /\ procs[w].state = "exited"
        /\ procs[w].produced > 0
        /\ procs[w].returncode = 0
        /\ GotFinished(w, CANCELLED)

\* the result the priority order gives for this reading of the flag
Determined(result, flag, w) ==
    IF flag THEN result.status = CANCELLED
    ELSE IF workers[w].result.success
         THEN /\ result.status = SUCCESS
              /\ result.output_path = workers[w].self.config.output_dir
         ELSE /\ result.status = FAILED
              /\ result.error_message # ""

\* C5 as claimed: the result emitted after the streaming run is the one the
\* priority order gives for the flag as it was when the streaming run
\* returned.
C5_Original ==
    \A w \in Workers :
        workers[w].error = ""
        => \A i \in DOMAIN FinishedOf(w) :
              Determined(FinishedOf(w)[i].arg, workers[w].flag_at_return, w)

\* C5: the result emitted after the streaming run is the one the priority
\* order (cancelled, else success with the output path, else failed with a
\* message) gives for the flag as run() reads it on line 150, after the
\* streaming run has returned.
C5_ResultPriority ==
    \A w \in Workers :
        workers[w].error = ""
        => \A i \in DOMAIN FinishedOf(w) :
              Determined(FinishedOf(w)[i].arg, workers[w].flag_at_check, w)

C5_Witness ==
    \E w \in Workers :
        /\ ~workers[w].flag_at_return
        /\ workers[w].flag_at_check
        /\ workers[w].result.success
        /\ GotFinished(w, CANCELLED)

\* C6: an exception raised inside run() is handled there: the worker emits
\* one result, failed with the exception's text as error message, and run()
\* returns; a worker thread never ends by an exception.
C6_ExceptionReported ==
    \A w \in Workers :
        /\ workers[w].error # ""
           => /\ workers[w].pc \in {"except", "done"}
              /\ workers[w].pc = "done"
                 => /\ Len(FinishedOf(w)) = 1
                    /\ FinishedOf(w)[1].arg.status = FAILED
                    /\ FinishedOf(w)[1].arg.error_message = workers[w].error
        /\ workers[w].thread = "finished"
           => workers[w].pc = "done" /\ Len(FinishedOf(w)) = 1

C6_Witness ==
    \E w \in Workers :
        /\ workers[w].error = "Script path is required"
        /\ workers[w].thread = "finished"
        /\ GotFinished(w, FAILED)

\* C7: a build whose configuration has an empty script path never gets a
\* command or a process: command construction raises "Script path is
\* required" and run() goes from there to its handler.
C7_EmptyScriptNoProcess ==
    \A w \in Workers :
        workers[w].self.config.script_path = <<>>
        => /\ procs[w].state = "none"
           /\ workers[w].cmd = <<>>
           /\ workers[w].pc \in {"prepare", "build_cmd", "except", "done"}
           /\ workers[w].pc \in {"except", "done"}
              => workers[w].error = "Script path is required"

C7_Witness ==
    \E w \in Workers :
        /\ workers[w].self.config.script_path = <<>>
        /\ workers[w].self.config.output_dir # <<>>
        /\ workers[w].pc = "done"

BuiltCmd == bc_pc = "done" /\ ~bc_out.raised

UserValues(self) ==
    {self.python_path, self.config.output_dir, self.config.app_name,
     self.config.icon_path, self.config.script_path}
    \cup {strip(self.config.hidden_imports[i]) : i \in DOMAIN self.config.hidden_imports}
    \cup {strip(self.config.exclude_modules[i]) : i \in DOMAIN self.config.exclude_modules}
    \cup Range(split(self.config.additional_args))

RECURSIVE ValuesOf(_, _)
ValuesOf(flag, cmd) ==
    IF Len(cmd) < 2 THEN <<>>
    ELSE IF cmd[1] = flag THEN <<cmd[2]>> \o ValuesOf(flag, SubSeq(cmd, 3, Len(cmd)))
    ELSE ValuesOf(flag, Tail(cmd))

\* a stored data-file entry source;destination, emitted with its separator
\* replaced and source and destination as they are
SeparatorReplaced(entry, path_sep) ==
    CHOOSE v \in {s \o <<path_sep>> \o d : s \in DataSources, d \in DataDests} :
        \E s \in DataSources, d \in DataDests :
            entry = s \o <<";">> \o d /\ v = s \o <<path_sep>> \o d

\* C9: every non-blank data-file entry source;destination is emitted as one
\* --add-data value: the source, the platform separator, the destination.
C9_DataSeparatorOnce ==
    BuiltCmd
    => LET kept == SelectSeq(bc_self.config.data_files, LAMBDA e : strip(e) # <<>>)
           path_sep == IF bc_env.platform = "win32" THEN ";" ELSE ":"
       IN  ValuesOf(S("--add-data"), bc_out.cmd)
             = [i \in DOMAIN kept |-> SeparatorReplaced(kept[i], path_sep)]

\* the flag before each value
RECURSIVE Flagged(_, _)
Flagged(flag, values) ==
    IF values = <<>> THEN <<>>
    ELSE <<flag, Head(values)>> \o Flagged(flag, Tail(values))

Opt(cond, part) == IF cond THEN part ELSE <<>>

NonBlank(entries) == SelectSeq(entries, LAMBDA e : strip(e) # <<>>)

\* C10: for a configuration with a script path the vector is, in this
\* order: the interpreter, -m, PyInstaller, the output-mode flag,
\* --noconsole iff console_mode is off, --clean iff clean_build is on,
\* --noconfirm, --distpath and output_dir iff that is not empty, --name and
\* app_name iff that is not empty, the icon, the hidden imports, the excluded
\* modules, the data files, the whitespace-split tokens of additional_args,
\* and last the script path.
C10_VectorOrder ==
    (bc_pc = "done" /\ bc_self.config.script_path # <<>>)
    => LET c == bc_self.config
           hidden == NonBlank(c.hidden_imports)
           excluded == NonBlank(c.exclude_modules)
           data == NonBlank(c.data_files)
           path_sep == IF bc_env.platform = "win32" THEN ";" ELSE ":"
       IN  /\ ~bc_out.raised
           /\ bc_out.cmd =
                <<bc_self.python_path, S("-m"), S("PyInstaller")>>
                \o <<IF c.one_file THEN S("--onefile") ELSE S("--onedir")>>
                \o Opt(~c.console_mode, <<S("--noconsole")>>)
                \o Opt(c.clean_build, <<S("--clean")>>)
                \o <<S("--noconfirm")>>
                \o Opt(c.output_dir # <<>>, <<S("--distpath"), c.output_dir>>)
                \o Opt(c.app_name # <<>>, <<S("--name"), c.app_name>>)
                \o Opt(c.icon_path # <<>> /\ c.icon_path \in bc_env.files,
                       <<S("--icon"), c.icon_path>>)
                \o Flagged(S("--hidden-import"),
                           [i \in DOMAIN hidden |-> strip(hidden[i])])
                \o Flagged(S("--exclude-module"),
                           [i \in DOMAIN excluded |-> strip(excluded[i])])
                \o Flagged(S("--add-data"),
                           [i \in DOMAIN data |->
                                replace(strip(data[i]), ";", path_sep)])
                \o split(c.additional_args)
                \o <<c.script_path>>
           /\ bc_out.cmd[Len(bc_out.cmd)] = c.script_path

C10_Witness ==
    /\ BuiltCmd
    /\ ~bc_self.config.console_mode
    /\ bc_self.config.clean_build
    /\ bc_self.config.output_dir # <<>>
    /\ bc_self.config.app_name # <<>>
    /\ S("--icon") \in Range(bc_out.cmd)
    /\ Len(split(bc_self.config.additional_args)) = 2
    /\ Len(bc_out.cmd) = 16

--------------------------------------------------------------------------
(* The environment orchestrator: VenvWorker and VenvManager *)

\* VenvManager.base_path, the environments' names and a requirements path
base_path == <<"venvs">>
Names == {"e1", "e2"}
Manifest == <<"req.txt">>

\* Path.exists(), Path.is_dir()
exists(h, path) == path \in h.files \cup h.dirs
is_dir(h, path) == path \in h.dirs

\* the platform's conventional interpreter and installer paths
python_path_of(platform, venv_path) ==
    IF platform = "win32" THEN venv_path \o <<"Scripts", "python.exe">>
    ELSE venv_path \o <<"bin", "python">>

pip_path_of(platform, venv_path) ==
    IF platform = "win32" THEN venv_path \o <<"Scripts", "pip.exe">>
    ELSE venv_path \o <<"bin", "pip">>

\* what may be on disk at an environment root: nothing, a plain file, an
\* empty directory, an environment of either platform's layout, or one
\* whose installer is missing
RootStates(root) ==
    {[dirs |-> {}, files |-> {}],
     [dirs |-> {}, files |-> {root}],
     [dirs |-> {root}, files |-> {}],
     VenvLayout("linux", root),
     VenvLayout("win32", root),
     [dirs |-> {root, root \o <<"bin">>}, files |-> {root \o <<"bin", "python">>}]}

OtherRootStates(root) ==
    {[dirs |-> {}, files |-> {}],
     [dirs |-> {}, files |-> {root}],
     VenvLayout("linux", root)}

\* VenvWorker.__init__ and QThread.start(); run() dispatches on the operation
NewVenvWorker(operation, venv_path, requirements_path) ==
    [operation |-> operation,
     venv_path |-> venv_path,
     requirements_path |-> requirements_path,   \* [set |-> FALSE] is None
     thread |-> "running",
     pc |-> CASE operation = "create" -> "create_progress"
              [] operation = "install" -> "install_check"
              [] operation = "delete" -> "delete_progress",
     \* history, read by the properties only: the disk as _delete_venv found it
     host_at_check |-> [platform |-> "", files |-> {}, dirs |-> {}]]

NoPath == [set |-> FALSE, path |-> <<>>]
SomePath(path) == [set |-> TRUE, path |-> path]

VenvStart_keeps_current(operation, name, requirements_path) ==
    /\ main_pc = "idle"
    /\ vworkers' = Append(vworkers,
                          NewVenvWorker(operation, base_path \o <<name>>,
                                        requirements_path))
    /\ runs' = Append(runs, NoRun)
    /\ venv_current' = IF venv_current # 0 /\ vworkers[venv_current].thread = "running"
                       THEN venv_current ELSE Len(vworkers) + 1
    /\ UNCHANGED <<host, info, build_vars, cmd_vars, plug_vars, win>>

\* VenvManager.create_venv / install_requirements / delete_venv: a worker is
\* made current and started, whatever the previous one is doing
VenvStart(operation, name, requirements_path) ==
    /\ main_pc = "idle"
    /\ vworkers' = Append(vworkers,
                          NewVenvWorker(operation, base_path \o <<name>>,
                                        requirements_path))
    /\ runs' = Append(runs, NoRun)
    /\ venv_current' = Len(vworkers) + 1
    /\ UNCHANGED <<host, info, build_vars, cmd_vars, plug_vars, win>>

VwRunning(r) == vworkers[r].thread = "running"

\* operation_finished.emit(success, message)
EmitFinished(r, success, message) ==
    Emit(r, "operation_finished", [success |-> success, message |-> message])

\* lines 51, 79, 113: progress.emit(...)
VwProgress(r) ==
    /\ VwRunning(r)
    /\ vworkers[r].pc \in {"create_progress", "install_progress", "delete_progress"}
    /\ events' = Emit(r, "progress",
                      CASE vworkers[r].pc = "create_progress" ->
                              "Creating virtual environment..."
                        [] vworkers[r].pc = "install_progress" ->
                              "Installing requirements..."
                        [] vworkers[r].pc = "delete_progress" ->
                              "Deleting virtual environment...")
    /\ vworkers' = [vworkers EXCEPT ![r].pc =
                      CASE vworkers[r].pc = "create_progress" -> "create_echo"
                        [] vworkers[r].pc = "install_progress" -> "install_pip"
                        [] vworkers[r].pc = "delete_progress" -> "delete_check"]
    /\ UNCHANGED <<runs, venv_current, host, info, workers, procs, current_worker,
                   main_pc, last_start, delivered, cmd_vars, plug_vars, win>>

\* _create_venv, line 52
VwEcho(r) ==
    /\ VwRunning(r) /\ vworkers[r].pc = "create_echo"
    /\ events' = Emit(r, "output_line", <<"Creating venv at: ", vworkers[r].venv_path>>)
    /\ vworkers' = [vworkers EXCEPT ![r].pc = "create_stream"]
    /\ UNCHANGED <<runs, venv_current, host, info, workers, procs, current_worker,
                   main_pc, last_start, delivered, cmd_vars, plug_vars, win>>

\* the command of lines 54 and 91
venv_command(h, self) ==
    IF self.operation = "create"
    THEN <<get_python_executable, "-m", "venv", self.venv_path>>
    ELSE <<pip_path_of(h.platform, self.venv_path), "install", "-r",
           self.requirements_path.path>>

\* lines 54-59 and 91-96: run_command_stream(cmd, output_callback) is entered
\* with the consumer that emits output_line
VwCallStream(r) ==
    /\ VwRunning(r) /\ vworkers[r].pc \in {"create_stream", "install_stream"}
    /\ runs' = [runs EXCEPT ![r] = StreamCall(venv_command(host, vworkers[r]), TRUE, 0)]
    /\ vworkers' = [vworkers EXCEPT ![r].pc = "streaming"]
    /\ UNCHANGED <<venv_current, host, info, build_vars, cmd_vars, plug_vars, win>>

\* lines 61-66 and 98-103: the result of the streaming run reported
stream_report(operation, result) ==
    IF result.success
    THEN [success |-> TRUE,
          message |-> IF operation = "create" THEN "Virtual environment created"
                      ELSE "Requirements installed"]
    ELSE [success |-> FALSE, message |-> "Failed: " \o result.stderr]

VwFinish(r) ==
    /\ VwRunning(r) /\ vworkers[r].pc = "streaming"
    /\ runs[r].pc = "returned"
    /\ events' = Emit(r, "operation_finished",
                      stream_report(vworkers[r].operation, runs[r].result))
    /\ vworkers' = [vworkers EXCEPT ![r].pc = "done"]
    /\ UNCHANGED <<runs, venv_current, host, info, workers, procs, current_worker,
                   main_pc, last_start, delivered, cmd_vars, plug_vars, win>>

manifest_missing_never(h, self) == FALSE

\* _install_requirements, line 75
manifest_missing(h, self) ==
    ~self.requirements_path.set \/ ~exists(h, self.requirements_path.path)

\* _install_requirements, lines 75-77
VwCheckManifest(r) ==
    /\ VwRunning(r) /\ vworkers[r].pc = "install_check"
    /\ IF manifest_missing(host, vworkers[r])
       THEN /\ events' = EmitFinished(r, FALSE, "Requirements file not found")
            /\ vworkers' = [vworkers EXCEPT ![r].pc = "done"]
       ELSE /\ vworkers' = [vworkers EXCEPT ![r].pc = "install_progress"]
            /\ UNCHANGED events
    /\ UNCHANGED <<runs, venv_current, host, info, workers, procs, current_worker,
                   main_pc, last_start, delivered, cmd_vars, plug_vars, win>>

pip_missing_never(h, self) == FALSE

\* _install_requirements, lines 82-87
pip_missing(h, self) == ~exists(h, pip_path_of(h.platform, self.venv_path))

\* _install_requirements, lines 82-89
VwCheckPip(r) ==
    /\ VwRunning(r) /\ vworkers[r].pc = "install_pip"
    /\ IF pip_missing(host, vworkers[r])
       THEN /\ events' = EmitFinished(r, FALSE, "Pip not found in virtual environment")
            /\ vworkers' = [vworkers EXCEPT ![r].pc = "done"]
       ELSE /\ vworkers' = [vworkers EXCEPT ![r].pc = "install_stream"]
            /\ UNCHANGED events
    /\ UNCHANGED <<runs, venv_current, host, info, workers, procs, current_worker,
                   main_pc, last_start, delivered, cmd_vars, plug_vars, win>>

\* path is root or lies below it
Under(root, path) ==
    Len(path) >= Len(root) /\ SubSeq(path, 1, Len(root)) = root

\* shutil.rmtree(root) that succeeds
rmtree(h, root) ==
    [h EXCEPT !.files = {f \in @ : ~Under(root, f)},
              !.dirs = {d \in @ : ~Under(root, d)}]

\* str(e) of the exception shutil.rmtree raises: the root is no directory,
\* or something below it cannot be removed
RmtreeErrors(h, root) ==
    IF is_dir(h, root) THEN {"Permission denied"} ELSE {"Not a directory"}

root_exists_always(h, self) == TRUE

\* _delete_venv, line 115
root_exists(h, self) == exists(h, self.venv_path)

VwDelete_escapes(r) ==
    /\ VwRunning(r) /\ vworkers[r].pc = "delete_check"
    /\ IF root_exists(host, vworkers[r])
       THEN \/ /\ is_dir(host, vworkers[r].venv_path)
               /\ host' = rmtree(host, vworkers[r].venv_path)
               /\ events' = EmitFinished(r, TRUE, "Virtual environment deleted")
            \/ /\ \E e \in RmtreeErrors(host, vworkers[r].venv_path) :
                     events' = events
               /\ UNCHANGED host
       ELSE /\ events' = EmitFinished(r, FALSE, "Virtual environment not found")
            /\ UNCHANGED host
    /\ vworkers' = [vworkers EXCEPT ![r].pc = "done", ![r].host_at_check = host]
    /\ UNCHANGED <<runs, venv_current, info, workers, procs, current_worker,
                   main_pc, last_start, delivered, cmd_vars, plug_vars, win>>

\* _delete_venv, lines 115-124: the root is removed and success reported,
\* or rmtree raises (nothing removed) and the handler reports str(e); an
\* absent root is reported as not found
VwDelete(r) ==
    /\ VwRunning(r) /\ vworkers[r].pc = "delete_check"
    /\ IF root_exists(host, vworkers[r])
       THEN \/ /\ is_dir(host, vworkers[r].venv_path)
               /\ host' = rmtree(host, vworkers[r].venv_path)
               /\ events' = EmitFinished(r, TRUE, "Virtual environment deleted")
            \/ /\ \E e \in RmtreeErrors(host, vworkers[r].venv_path) :
                     events' = EmitFinished(r, FALSE, e)
               /\ UNCHANGED host
       ELSE /\ events' = EmitFinished(r, FALSE, "Virtual environment not found")
            /\ UNCHANGED host
    /\ vworkers' = [vworkers EXCEPT ![r].pc = "done", ![r].host_at_check = host]
    /\ UNCHANGED <<runs, venv_current, info, workers, procs, current_worker,
                   main_pc, last_start, delivered, cmd_vars, plug_vars, win>>

\* run() has returned: the thread ends
VwThreadFinish(r) ==
    /\ VwRunning(r) /\ vworkers[r].pc = "done"
    /\ vworkers' = [vworkers EXCEPT ![r].thread = "finished"]
    /\ UNCHANGED <<runs, venv_current, host, info, build_vars, cmd_vars, plug_vars, win>>

\* what the version query "python --version" may do
QueryOutcomes ==
    {o \in Outcomes(NoTimeout) :
        \/ o.kind = "oserror" /\ o.stderr = "Permission denied"
        \/ o.kind = "completed" /\ o.returncode = 0 /\ o.stdout # <<>> /\ o.stderr = ""
        \/ o.kind = "completed" /\ o.returncode = 1 /\ o.stdout = <<>> /\ o.stderr # ""}

\* VenvInfo(path, python_path, pip_path, exists, python_version)
VenvInfo(path, python_path, pip_path, venv_exists, python_version) ==
    [path |-> path, python_path |-> python_path, pip_path |-> pip_path,
     exists |-> venv_exists, python_version |-> python_version]

inspect_exists_root_only(h, name) == exists(h, base_path \o <<name>>)

\* get_venv_info, line 147
inspect_exists(h, name) ==
    /\ exists(h, base_path \o <<name>>)
    /\ exists(h, python_path_of(h.platform, base_path \o <<name>>))

\* VenvManager.get_venv_info: the VenvInfo returned, whether run_command was
\* called (queried) and whether that spawned a process; outcome is what the
\* version query does if it is run
get_venv_info(h, name, outcome) ==
    LET venv_path == base_path \o <<name>>
        venv_exists == inspect_exists(h, name)
        result == run_command(outcome, NoTimeout).result
    IN  [name |-> name,
         venv |-> VenvInfo(venv_path,
                           python_path_of(h.platform, venv_path),
                           pip_path_of(h.platform, venv_path),
                           venv_exists,
                           IF venv_exists /\ result.success
                           THEN strip(result.stdout) ELSE <<>>),
         queried |-> venv_exists,
         spawned |-> venv_exists /\ outcome.kind # "oserror"]

\* no environment worker is running: the orchestrator is used serially
VenvQuiet == \A r \in DOMAIN vworkers : ~VwRunning(r)

\* one call of VenvManager.get_venv_info(name)
Inspect(name) ==
    /\ main_pc = "idle" /\ VenvQuiet
    /\ \E outcome \in QueryOutcomes :
          info' = <<get_venv_info(host, name, outcome)>>
    /\ UNCHANGED <<runs, vworkers, venv_current, host, build_vars, cmd_vars, plug_vars, win>>

\* base_path.iterdir(), in the order the file system gives
Items(h) == {p \in h.files \cup h.dirs : Len(p) = 2 /\ SubSeq(p, 1, 1) = base_path}

\* one call of VenvManager.list_venvs(): every directory item inspected
Enumerate ==
    /\ main_pc = "idle" /\ VenvQuiet
    /\ LET found == {p \in Items(host) : is_dir(host, p)}
       IN  \E order \in {o \in SeqsUpTo(found, Cardinality(found)) :
                            Len(o) = Cardinality(found) /\ Range(o) = found} :
           \E outcome \in [found -> QueryOutcomes] :
              info' = [i \in DOMAIN order |->
                          get_venv_info(host, order[i][2], outcome[order[i]])]
    /\ UNCHANGED <<runs, vworkers, venv_current, host, build_vars, cmd_vars, plug_vars, win>>

\* VenvManager.__init__ on a host with or without environments and manifest
VenvInit ==
    /\ BuilderInit
    /\ CmdIdle
    /\ PlugIdle
    /\ WinIdle
    /\ runs = <<>>
    /\ vworkers = <<>>
    /\ venv_current = 0
    /\ info = <<>>
    /\ \E p \in Platforms, a \in RootStates(base_path \o <<"e1">>),
          b \in OtherRootStates(base_path \o <<"e2">>), m \in SUBSET {Manifest} :
          host = [platform |-> p,
                  files |-> a.files \cup b.files \cup m,
                  dirs |-> {base_path} \cup a.dirs \cup b.dirs]

\* one environment operation followed in full, and inspections around it
VenvNext ==
    \/ /\ vworkers = <<>>
       /\ \/ VenvStart("create", "e1", NoPath)
          \/ \E req \in {NoPath, SomePath(Manifest)} : VenvStart("install", "e1", req)
          \/ VenvStart("delete", "e1", NoPath)
    \/ \E r \in DOMAIN vworkers : VwProgress(r)
    \/ \E r \in DOMAIN vworkers : VwEcho(r)
    \/ \E r \in DOMAIN vworkers : VwCallStream(r)
    \/ \E r \in DOMAIN vworkers : VwFinish(r)
    \/ \E r \in DOMAIN vworkers : VwCheckManifest(r)
    \/ \E r \in DOMAIN vworkers : VwCheckPip(r)
    \/ \E r \in DOMAIN vworkers : VwDelete(r)
    \/ \E r \in DOMAIN vworkers : VwThreadFinish(r)
    \/ \E r \in DOMAIN runs : SrSpawn(r)
    \/ \E r \in DOMAIN runs : SrRead(r)
    \/ \E r \in DOMAIN runs : SrWait(r)
    \/ \E r \in DOMAIN runs : PWrite(r)
    \/ \E r \in DOMAIN runs : PExit(r)
    \/ \E name \in Names : Inspect(name)
    \/ Enumerate
    \/ Deliver

VenvSpec == VenvInit /\ [][VenvNext]_vars

\* a VenvManager asked for operations whenever the caller likes, on a host
\* that has the environment and the manifest
OverlapInit ==
    /\ BuilderInit
    /\ CmdIdle
    /\ PlugIdle
    /\ WinIdle
    /\ runs = <<>>
    /\ vworkers = <<>>
    /\ venv_current = 0
    /\ info = <<>>
    /\ LET a == VenvLayout("linux", base_path \o <<"e1">>)
       IN  host = [platform |-> "linux",
                   files |-> a.files \cup {Manifest},
                   dirs |-> {base_path} \cup a.dirs]

OverlapNext ==
    \/ /\ Len(vworkers) < MaxOps
       /\ \/ VenvStart("create", "e2", NoPath)
          \/ VenvStart("install", "e1", SomePath(Manifest))
          \/ VenvStart("delete", "e1", NoPath)
    \/ \E r \in DOMAIN vworkers : VwProgress(r)
    \/ \E r \in DOMAIN vworkers : VwEcho(r)
    \/ \E r \in DOMAIN vworkers : VwCallStream(r)
    \/ \E r \in DOMAIN vworkers : VwFinish(r)
    \/ \E r \in DOMAIN vworkers : VwCheckManifest(r)
    \/ \E r \in DOMAIN vworkers : VwCheckPip(r)
    \/ \E r \in DOMAIN vworkers : VwDelete(r)
    \/ \E r \in DOMAIN vworkers : VwThreadFinish(r)
    \/ \E r \in DOMAIN runs : SrSpawn(r)
    \/ \E r \in DOMAIN runs : SrRead(r)
    \/ \E r \in DOMAIN runs : SrWait(r)
    \/ \E r \in DOMAIN runs : PWrite(r)
    \/ \E r \in DOMAIN runs : PExit(r)

OverlapSpec == OverlapInit /\ [][OverlapNext]_vars

\* one run followed to its terminal notification: a build, or an
\* environment operation on a host with or without the environment
OrderInit ==
    /\ BuilderInit
    /\ CmdIdle
    /\ PlugIdle
    /\ WinIdle
    /\ runs = <<>>
    /\ vworkers = <<>>
    /\ venv_current = 0
    /\ info = <<>>
    /\ \E a \in {[dirs |-> {}, files |-> {}], VenvLayout("linux", base_path \o <<"e1">>)} :
          host = [platform |-> "linux",
                  files |-> a.files \cup {Manifest},
                  dirs |-> {base_path} \cup a.dirs]

OrderNext ==
    \/ /\ \E config \in BuildConfigs : StartBuild(config)
       /\ vworkers = <<>>
       /\ workers = <<>> \/ start_rejected
    \/ CancelBuild
    \/ CbCancel
    \/ CbTerminate
    \/ CbWait
    \/ Deliver
    \/ \E w \in Workers : WorkerCancel(w)
    \/ \E w \in Workers : RunPrepare(w)
    \/ \E w \in Workers : RunBuildCommand(w)
    \/ \E w \in Workers : RunEcho(w)
    \/ \E w \in Workers : RunBuilding(w)
    \/ \E w \in Workers : StreamSpawn(w, MaxLines)
    \/ \E w \in Workers : StreamRead(w)
    \/ \E w \in Workers : StreamWait(w)
    \/ \E w \in Workers : RunCheck(w)
    \/ \E w \in Workers : RunEmitResult(w)
    \/ \E w \in Workers : RunExcept(w)
    \/ \E w \in Workers : ThreadFinish(w)
    \/ \E w \in Workers : ThreadKilled(w)
    \/ \E w \in Workers : ProcWrite(w)
    \/ \E w \in Workers : ProcExit(w)
    \/ /\ vworkers = <<>> /\ workers = <<>>
       /\ \/ VenvStart("create", "e1", NoPath)
          \/ VenvStart("install", "e1", SomePath(Manifest))
          \/ VenvStart("delete", "e1", NoPath)
    \/ \E r \in DOMAIN vworkers : VwProgress(r)
    \/ \E r \in DOMAIN vworkers : VwEcho(r)
    \/ \E r \in DOMAIN vworkers : VwCallStream(r)
    \/ \E r \in DOMAIN vworkers : VwFinish(r)
    \/ \E r \in DOMAIN vworkers : VwCheckManifest(r)
    \/ \E r \in DOMAIN vworkers : VwCheckPip(r)
    \/ \E r \in DOMAIN vworkers : VwDelete(r)
    \/ \E r \in DOMAIN vworkers : VwThreadFinish(r)
    \/ \E r \in DOMAIN runs : SrSpawn(r)
    \/ \E r \in DOMAIN runs : SrRead(r)
    \/ \E r \in DOMAIN runs : SrWait(r)
    \/ \E r \in DOMAIN runs : PWrite(r)
    \/ \E r \in DOMAIN runs : PExit(r)

OrderSpec == OrderInit /\ [][OrderNext]_vars

--------------------------------------------------------------------------
(* Properties of a build's output and failure report *)

\* what the process of worker w has written to its standard error
StderrText(w) == IF procs[w].wrote_err THEN "text written to stderr" ELSE ""

\* C14: a build whose process exited with a nonzero code, and on which no
\* cancellation was requested, is reported failed with the text the process
\* wrote to standard error as its error message, and with "Build failed"
\* only if it wrote nothing there.
C14_StderrReported ==
    \A w \in Workers :
        (/\ procs[w].state = "exited"
         /\ procs[w].returncode # 0
         /\ ~workers[w].cancelled)
        => \A i \in DOMAIN FinishedOf(w) :
              /\ FinishedOf(w)[i].arg.status = FAILED
              /\ FinishedOf(w)[i].arg.error_message =
                    IF StderrText(w) # "" THEN StderrText(w) ELSE "Build failed"

\* the process output lines of worker w among these emissions
RelayedLines(w, emitted) ==
    SelectSeq(emitted, LAMBDA e : e.w = w /\ e.sig = "output_line"
                                  /\ e.arg[1] = "line")

\* run() of worker w has left the read loop of a process it spawned
LoopLeft(w) ==
    /\ procs[w].state # "none"
    /\ workers[w].pc \in {"wait", "returned", "emit_cancelled", "emit_success",
                          "emit_failed", "done"}

\* C15: the step that sets the flag changes nothing else of the worker and
\* nothing of the process; once the flag is set no further process output
\* line is relayed; and the read loop, cancelled or not, is left only when
\* the process has exited and every line it wrote has been read.
C15_CancelOnlySetsFlag ==
    /\ [][\A w \in Workers :
            (~workers[w].cancelled /\ workers'[w].cancelled)
            => /\ procs' = procs
               /\ events' = events
               /\ workers'[w] = [workers[w] EXCEPT
                                    !.cancelled = TRUE,
                                    !.cancel_when = workers'[w].cancel_when]]_vars
    /\ [][\A w \in Workers :
            workers[w].cancelled
            => RelayedLines(w, AllEvents') = RelayedLines(w, AllEvents)]_vars
    /\ [](\A w \in Workers :
            LoopLeft(w)
            => /\ procs[w].state = "exited"
               /\ procs[w].pipe = <<>>
               /\ Len(workers[w].stdout_lines) = procs[w].produced)

C15_Witness ==
    \E w \in Workers :
        /\ workers[w].cancelled
        /\ workers[w].thread = "running"
        /\ workers[w].pc = "returned"
        /\ Len(workers[w].stdout_lines) = 2
        /\ Len(RelayedLines(w, AllEvents)) = 1
        /\ procs[w].state = "exited"

--------------------------------------------------------------------------
(* Properties of the process runners *)

\* the streaming runs that have returned their result
Returned == {r \in DOMAIN runs : runs[r].mode = "stream" /\ runs[r].pc = "returned"}

\* the consumer of run r raised on one of its calls
ConsumerRaised(r) ==
    runs[r].raise_at # 0 /\ Len(runs[r].calls) >= runs[r].raise_at

\* the process of run r wrote N lines and exited with code 0; the consumer
\* was called N times, with the lines in the order written (each without its
\* trailing whitespace), and the result returned after that is successful and
\* its stdout is the N lines concatenated
DeliversAll(r) ==
    LET written == runs[r].proc.written
    IN  /\ Len(runs[r].calls) = Len(written)
        /\ \A i \in DOMAIN written : runs[r].calls[i] = rstrip(written[i])
        /\ runs[r].result.success
        /\ runs[r].result.return_code = 0
        /\ runs[r].result.stdout = join(written)

C13_ReturnAfterExit ==
    \A r \in Returned :
        runs[r].proc.state # "none" => runs[r].proc_at_return = "exited"

\* C16: a buffered run never raises: a timeout gives the result with exit
\* code -1, success false and the stderr text "Command timed out after
\* <timeout> seconds", a spawn failure the result with exit code -1, success
\* false and the failure's description as stderr; and a streaming run that
\* could not spawn returns such a failed result too.
C16_RunnerNeverRaises ==
    \A r \in DOMAIN runs :
        /\ runs[r].pc # "raised"
        /\ (runs[r].mode = "buffered" /\ runs[r].outcome.kind = "timeout")
           => /\ runs[r].pc = "returned"
              /\ runs[r].result.return_code = -1
              /\ ~runs[r].result.success
              /\ runs[r].result.stderr =
                    "Command timed out after "
                    \o ToString(runs[r].timeout.seconds) \o " seconds"
        /\ (runs[r].mode = "buffered" /\ runs[r].outcome.kind = "oserror")
           => /\ runs[r].pc = "returned"
              /\ runs[r].result.return_code = -1
              /\ ~runs[r].result.success
              /\ runs[r].result.stderr = runs[r].outcome.stderr
        /\ (r \in Returned /\ runs[r].proc.state = "none")
           => /\ runs[r].result.return_code = -1
              /\ ~runs[r].result.success
              /\ runs[r].result.stderr \in SpawnErrors

C16_Witness ==
    \E r \in DOMAIN runs :
        /\ runs[r].mode = "buffered"
        /\ runs[r].pc = "returned"
        /\ runs[r].outcome.kind = "oserror"
        /\ runs[r].result.stderr = "Permission denied"
        /\ runs[r].timeout.set

--------------------------------------------------------------------------
(* Properties of notification order *)

\* among what the listeners received: no output line of emitter x after its
\* terminal notification
NoLineAfter(x, terminal) ==
    \A i, j \in DOMAIN delivered :
        (/\ i < j
         /\ delivered[i].w = x /\ delivered[i].sig = terminal)
        => ~(delivered[j].w = x /\ delivered[j].sig = "output_line")

\* the terminal notification of emitter x has been received
GotTerminal(x, terminal) ==
    \E i \in DOMAIN delivered : delivered[i].w = x /\ delivered[i].sig = terminal

\* C12: the process output lines a listener has received from a build are
\* the process's lines in the order it wrote them, those received from an
\* environment operation are the lines its process wrote, in that order;
\* no output line of a run is received after the run's build_finished /
\* operation_finished; and when that notification is received no output
\* line of the run is still waiting.
C12_OutputBeforeTerminal ==
    /\ \A w \in Workers :
          LET got == RelayedLines(w, delivered)
          IN  /\ Len(got) <= procs[w].produced
              /\ \A i \in DOMAIN got : got[i].arg[2] = i
              /\ NoLineAfter(w, "build_finished")
              /\ GotTerminal(w, "build_finished")
                 => RelayedLines(w, events) = <<>>
    /\ \A r \in DOMAIN vworkers :
          LET got == RelayedLines(r, delivered)
              written == runs[r].proc.written
          IN  /\ Len(got) <= Len(written)
              /\ \A i \in DOMAIN got : got[i].arg[2] = rstrip(written[i])
              /\ NoLineAfter(r, "operation_finished")
              /\ GotTerminal(r, "operation_finished")
                 => /\ RelayedLines(r, events) = <<>>
                    /\ runs[r].proc.state # "none" => Len(got) = Len(written)

C12_Witness ==
    \E r \in DOMAIN vworkers :
        /\ vworkers[r].operation = "create"
        /\ Len(RelayedLines(r, delivered)) = 2
        /\ RelayedLines(r, delivered)[1].arg[2] # RelayedLines(r, delivered)[2].arg[2]
        /\ delivered[Len(delivered)].sig = "operation_finished"
        /\ delivered[Len(delivered)].arg.success

--------------------------------------------------------------------------
(* Properties of the environment orchestrator *)

\* everything worker r has emitted, as <<signal, argument>> pairs
VwEmitted(r) ==
    LET mine == SelectSeq(AllEvents, LAMBDA e : e.w = r)
    IN  [i \in DOMAIN mine |-> <<mine[i].sig, mine[i].arg>>]

\* s is a prefix of t
IsPrefix(s, t) == Len(s) <= Len(t) /\ s = SubSeq(t, 1, Len(s))

\* C17: an install whose manifest path is None or names no existing file
\* emits operation_finished(False, "Requirements file not found") and nothing
\* else, and never enters the streaming run: no process is spawned.
C17_NoManifestNoProcess ==
    \A r \in DOMAIN vworkers :
        (/\ vworkers[r].operation = "install"
         /\ \/ ~vworkers[r].requirements_path.set
            \/ ~exists(host, vworkers[r].requirements_path.path))
        => LET report == <<"operation_finished",
                           [success |-> FALSE,
                            message |-> "Requirements file not found"]>>
           IN  /\ runs[r].mode = "none"
               /\ runs[r].proc.state = "none"
               /\ vworkers[r].pc \in {"install_check", "done"}
               /\ VwEmitted(r) = IF vworkers[r].pc = "done" THEN <<report>> ELSE <<>>

C17_Witness ==
    \E r \in DOMAIN vworkers :
        /\ vworkers[r].operation = "install"
        /\ vworkers[r].requirements_path.set
        /\ ~exists(host, vworkers[r].requirements_path.path)
        /\ ~pip_missing(host, vworkers[r])
        /\ vworkers[r].thread = "finished"
        /\ events = <<>>
        /\ GotTerminal(r, "operation_finished")

\* C18: an install whose manifest exists but whose environment has no
\* installer at the platform's path reports operation_finished(False, "Pip
\* not found in virtual environment") after its progress message and never
\* enters the streaming run; an install enters the streaming run, with the
\* installer's command, only when manifest and installer both exist.
C18_NoInstallerNoProcess ==
    \A r \in DOMAIN vworkers :
        vworkers[r].operation = "install"
        => LET self == vworkers[r]
               has_manifest == /\ self.requirements_path.set
                               /\ exists(host, self.requirements_path.path)
               has_pip == exists(host, pip_path_of(host.platform, self.venv_path))
               reports == << <<"progress", "Installing requirements...">>,
                             <<"operation_finished",
                               [success |-> FALSE,
                                message |-> "Pip not found in virtual environment"]>> >>
           IN  /\ (has_manifest /\ ~has_pip)
                  => /\ runs[r].mode = "none"
                     /\ runs[r].proc.state = "none"
                     /\ IsPrefix(VwEmitted(r), reports)
                     /\ self.pc = "done" => VwEmitted(r) = reports
               /\ runs[r].mode # "none"
                  => /\ has_manifest /\ has_pip
                     /\ runs[r].mode = "stream"
                     /\ runs[r].command =
                           <<pip_path_of(host.platform, self.venv_path),
                             "install", "-r", self.requirements_path.path>>

C18_Witness ==
    \E r \in DOMAIN vworkers :
        /\ vworkers[r].operation = "install"
        /\ exists(host, vworkers[r].requirements_path.path)
        /\ exists(host, python_path_of(host.platform, vworkers[r].venv_path))
        /\ pip_missing(host, vworkers[r])
        /\ vworkers[r].thread = "finished"
        /\ events = <<>>
        /\ GotTerminal(r, "operation_finished")

\* the delete workers whose _delete_venv has ended
Deleted == {r \in DOMAIN vworkers :
               vworkers[r].operation = "delete" /\ vworkers[r].pc = "done"}

\* the operation_finished arguments worker r has emitted
VwFinished(r) ==
    LET mine == SelectSeq(AllEvents,
                          LAMBDA e : e.w = r /\ e.sig = "operation_finished")
    IN  [i \in DOMAIN mine |-> mine[i].arg]

\* the disk is as before except that nothing at or below root is left
RootRemoved(before, after, root) ==
    /\ \A path \in after.files \cup after.dirs : ~Under(root, path)
    /\ after.files = {f \in before.files : ~Under(root, f)}
    /\ after.dirs = {d \in before.dirs : ~Under(root, d)}

\* a get_venv_info or list_venvs call made in this step (the only steps that
\* change info) does not find the environment of worker r
InspectedGone(r) ==
    info' # info
    => \A i \in DOMAIN info' :
          info'[i].venv.path = vworkers[r].venv_path => ~info'[i].venv.exists

\* C19 as claimed: a delete that finds the root removes it and reports
\* success; one that finds no root reports (False, "Virtual environment not
\* found") and leaves the disk as it is; and an inspection after a
\* successful delete reports exists = false.
C19_Original ==
    /\ [](\A r \in Deleted :
            LET self == vworkers[r]
            IN  IF exists(self.host_at_check, self.venv_path)
                THEN /\ VwFinished(r) = <<[success |-> TRUE,
                                           message |-> "Virtual environment deleted"]>>
                     /\ RootRemoved(self.host_at_check, host, self.venv_path)
                ELSE /\ VwFinished(r) = <<[success |-> FALSE,
                                           message |-> "Virtual environment not found"]>>
                     /\ host = self.host_at_check)
    /\ [][\A r \in Deleted :
            (VwFinished(r) # <<>> /\ VwFinished(r)[1].success) => InspectedGone(r)]_vars

\* C19: a delete that finds the root either removes it with everything
\* below and reports success, or, when the removal raises, reports (False,
\* text of the exception) and raises nothing; one that finds no root reports
\* (False, "Virtual environment not found") and leaves the disk as it is;
\* and an inspection after a successful delete reports exists = false.
C19_DeleteReports ==
    /\ [](\A r \in Deleted :
            LET self == vworkers[r]
            IN  /\ Len(VwFinished(r)) = 1
                /\ IF exists(self.host_at_check, self.venv_path)
                   THEN \/ /\ VwFinished(r)[1] =
                                 [success |-> TRUE,
                                  message |-> "Virtual environment deleted"]
                           /\ RootRemoved(self.host_at_check, host, self.venv_path)
                        \/ /\ ~VwFinished(r)[1].success
                           /\ VwFinished(r)[1].message
                                 \in {"Permission denied", "Not a directory"}
                           /\ host = self.host_at_check
                   ELSE /\ VwFinished(r)[1] =
                              [success |-> FALSE,
                               message |-> "Virtual environment not found"]
                        /\ host = self.host_at_check)
    /\ [][\A r \in Deleted :
            (VwFinished(r) # <<>> /\ VwFinished(r)[1].success) => InspectedGone(r)]_vars

C19_Witness ==
    \E r \in Deleted :
        /\ vworkers[r].thread = "finished"
        /\ exists(vworkers[r].host_at_check,
                  python_path_of(host.platform, vworkers[r].venv_path))
        /\ GotTerminal(r, "operation_finished")
        /\ VwFinished(r)[1].success
        /\ info # <<>>
        /\ info[1].name = "e1"
        /\ ~info[1].venv.exists
        /\ ~exists(host, vworkers[r].venv_path)

\* C20: every get_venv_info call, made directly or for a directory visited
\* by list_venvs (the steps that change info), runs the version query only
\* for an environment whose interpreter exists; for one whose interpreter
\* does not exist it runs no query and spawns nothing, exists is false and
\* the version is empty.
C20_QueryOnlyExisting ==
    [][info' # info
       => \A i \in DOMAIN info' :
             LET entry == info'[i]
                 interpreter == python_path_of(host.platform,
                                               base_path \o <<entry.name>>)
             IN  /\ entry.venv.python_path = interpreter
                 /\ entry.queried => exists(host, interpreter)
                 /\ entry.spawned => entry.queried
                 /\ ~exists(host, interpreter)
                    => /\ ~entry.queried
                       /\ ~entry.spawned
                       /\ ~entry.venv.exists
                       /\ entry.venv.python_version = <<>>]_vars

C20_Witness ==
    /\ Len(info) = 2
    /\ \E i, j \in DOMAIN info :
          /\ info[i].venv.exists /\ info[i].spawned
          /\ info[i].venv.python_version = <<"Python 3.11">>
          /\ ~info[j].venv.exists /\ ~info[j].queried
          /\ exists(host, info[j].venv.path)

--------------------------------------------------------------------------
(* Properties of overlapping environment operations *)

\* the environment workers that are running
VwRunningSet == {r \in DOMAIN vworkers : VwRunning(r)}

\* C21: a create, install or delete can be requested whenever the caller is
\* idle, whether or not an earlier worker is still running; the request adds
\* a running worker and leaves every earlier worker as it was, so workers run
\* side by side; and current_worker is always the newest worker.
C21_OverlapAccepted ==
    /\ [](main_pc = "idle"
          => /\ ENABLED VenvStart("create", "e2", NoPath)
             /\ ENABLED VenvStart("install", "e1", SomePath(Manifest))
             /\ ENABLED VenvStart("delete", "e1", NoPath))
    /\ [](venv_current = Len(vworkers))
    /\ [][Len(vworkers') # Len(vworkers)
          => /\ Len(vworkers') = Len(vworkers) + 1
             /\ vworkers'[Len(vworkers')].thread = "running"
             /\ \A r \in DOMAIN vworkers : vworkers'[r] = vworkers[r]
             /\ venv_current' = Len(vworkers')]_vars

C21_Witness ==
    /\ Len(vworkers) = 2
    /\ VwRunningSet = {1, 2}
    /\ venv_current = 2
    /\ vworkers[1].operation = "install" /\ runs[1].proc.state = "alive"
    /\ vworkers[2].operation = "delete" /\ vworkers[2].pc = "done"

--------------------------------------------------------------------------
(* Properties of the results and of the icon argument *)

\* C29: every ProcessResult returned by run_command or run_command_stream,
\* after a normal exit, a timeout or a failure to start the process, has
\* success true exactly when its return code is 0.
C29_SuccessIsZeroExit ==
    \A r \in DOMAIN runs :
        runs[r].pc = "returned" => (runs[r].result.success = (runs[r].result.return_code = 0))

C29_Witness ==
    \E r \in Returned :
        /\ runs[r].proc.state = "exited" /\ runs[r].proc.returncode = 1
        /\ runs[r].result.return_code = 1
        /\ ~runs[r].result.success

\* the --icon flag directly followed by the configured icon path
IconEmitted ==
    \E i \in 1..(Len(bc_out.cmd) - 1) :
        bc_out.cmd[i] = S("--icon") /\ bc_out.cmd[i + 1] = bc_self.config.icon_path

\* C30: for a configuration with a script, --icon and the icon path are in
\* the command exactly when icon_path is not empty and the file exists at that
\* moment; an icon path whose file is missing is left out without an error:
\* the command is built all the same, ending with the script.
C30_IconOnlyIfPresent ==
    (bc_pc = "done" /\ bc_self.config.script_path # <<>>)
    => LET c == bc_self.config
           present == c.icon_path # <<>> /\ c.icon_path \in bc_env.files
       IN  /\ IconEmitted <=> present
           /\ S("--icon") \in Range(bc_out.cmd) <=> present
           /\ (c.icon_path # <<>> /\ c.icon_path \notin bc_env.files)
              => /\ ~bc_out.raised
                 /\ bc_out.error = ""
                 /\ c.icon_path \notin Range(bc_out.cmd)
                 /\ Len(bc_out.cmd) >= 6
                 /\ bc_out.cmd[Len(bc_out.cmd)] = c.script_path

C30_Witness ==
    /\ bc_pc = "done"
    /\ bc_self.config.icon_path = IconFile
    /\ IconFile \notin bc_env.files
    /\ ~bc_out.raised
    /\ S("--icon") \notin Range(bc_out.cmd)
    /\ bc_out.cmd[Len(bc_out.cmd)] = S("app.py")

--------------------------------------------------------------------------
(* Properties of plugin execution *)

\* the plugin names in the order in which discovery first registered them:
\* the files in the order loaded, the classes of a file in namespace order
RECURSIVE FirstRegistered(_, _)
FirstRegistered(files, seen) ==
    IF files = <<>> THEN seen
    ELSE LET f == Head(files)
             valid == IF f.name[1] = "_" \/ f.exec_raises THEN <<>>
                      ELSE SelectSeq(f.classes,
                                     LAMBDA c : is_plugin_class(c) /\ c.instantiable)
             new == [i \in DOMAIN valid |-> valid[i].NAME]
             fresh == SelectSeq(new, LAMBDA n : n \notin Range(seen))
         IN  FirstRegistered(Tail(files), seen \o fresh)

\* C22: execute_post_build_plugins calls execute on every selected plugin
\* (an enabled instance of PostBuildPlugin) once, one after the other in the
\* order of the registry, which is the order in which the names were first
\* registered, whatever the earlier plugins returned or raised; nothing is
\* raised to the caller; the map returned has one entry per selected plugin,
\* true iff the plugin returned true, so false for a plugin that raised.
C22_AllSelectedRun ==
    plog.op = "execute_post_build_plugins"
    => LET sel == Selected(plog.seen)
           order == FirstRegistered(reload.order, <<>>)
       IN  /\ plog.ran = sel
           /\ [i \in DOMAIN plog.ran |-> plog.ran[i].class.NAME]
                 = SelectSeq(order, LAMBDA n :
                      \E i \in DOMAIN sel : sel[i].class.NAME = n)
           /\ ~plog.raised
           /\ Len(plog.results) = Len(sel)
           /\ \A i \in DOMAIN sel :
                 /\ plog.results[i].name = sel[i].class.NAME
                 /\ plog.results[i].value = (plog.outcome[sel[i].class.NAME] = "true")
                 /\ plog.outcome[sel[i].class.NAME] = "raise" => ~plog.results[i].value

C22_Witness ==
    /\ plog.op = "execute_post_build_plugins"
    /\ Len(plog.ran) = 3
    /\ plog.outcome[plog.ran[1].class.NAME] = "true"
    /\ plog.outcome[plog.ran[2].class.NAME] = "raise"
    /\ plog.outcome[plog.ran[3].class.NAME] = "true"
    /\ Len(plog.results) = 3
    /\ {i \in DOMAIN plog.results : ~plog.results[i].value} = {2}
    /\ Cardinality(Keys(plog.seen)) > 3

\* C23: execute_plugin raises nothing to its caller; if the plugin raises the
\* result is false; for a name that is not registered the result is false
\* and no plugin is run; for a registered name that plugin, and no other, is
\* run and the result is what it returned; the call leaves the registry as
\* it was.
C23_ExecuteNeverRaises ==
    /\ [](plog.op = "execute_plugin"
          => /\ ~plog.raised
             /\ plog.outcome = "raise" => ~plog.value
             /\ plog.name \notin Keys(plog.seen) => (~plog.value /\ plog.ran = <<>>)
             /\ plog.name \in Keys(plog.seen)
                => /\ plog.ran = get(plog.seen, plog.name)
                   /\ plog.value = (plog.outcome = "true"))
    /\ [][plog'.op = "execute_plugin" /\ plog' # plog => plugins' = plugins]_vars

C23_Witness ==
    /\ plog.op = "execute_plugin"
    /\ plog.outcome = "raise"
    /\ Len(plog.ran) = 1
    /\ ~plog.value /\ ~plog.raised

\* C24: execute_post_build_plugins runs exactly the registered plugins whose
\* PLUGIN_TYPE is "post_build" and whose get_info() reports enabled.
C24_RunsByKind ==
    plog.op = "execute_post_build_plugins"
    => Range(plog.ran) =
          {p \in Range(dict_values(plog.seen)) :
              p.class.PLUGIN_TYPE = "post_build" /\ get_info(p).enabled}

--------------------------------------------------------------------------
(* Properties of discovery and reload *)

\* the classes of a file that discovery registers
ValidClasses(f) ==
    IF f.name[Len(f.name)] # ".py" \/ f.name[1] = "_" \/ f.exec_raises THEN <<>>
    ELSE SelectSeq(f.classes, LAMBDA c : is_plugin_class(c) /\ c.instantiable)

\* the plugin names a directory holds
Discoverable(dir) ==
    {c.NAME : c \in UNION {Range(ValidClasses(f)) : f \in dir}}

\* reload_plugins has returned
Reloaded == reload.pc = "idle" /\ reload.gen >= 1

\* C25: when reload_plugins has returned, the registry's names are exactly
\* the plugin names of the directory as it was at the reload; every instance
\* was made by this reload, none is one the registry held before; a name that
\* only a file deleted since the previous discovery provided is gone; and
\* for a directory unchanged since the previous discovery the names are the
\* same as before.
C25_ReloadExact ==
    Reloaded
    => /\ Keys(plugins) = Discoverable(reload.dir)
       /\ \A i \in DOMAIN plugins :
             /\ plugins[i].value.gen = reload.gen
             /\ plugins[i].value \notin Range(dict_values(reload.old))
       /\ \A n \in Discoverable(reload.prev_dir) \ Discoverable(reload.dir) :
             get_plugin(plugins, n) = <<>>
       /\ reload.dir = reload.prev_dir => Keys(plugins) = Keys(reload.old)

C25_Witness ==
    /\ Reloaded
    /\ ZipFile \in reload.prev_dir \ reload.dir
    /\ get_plugin(reload.old, "Zip") # <<>>
    /\ get_plugin(plugins, "Zip") = <<>>
    /\ get_plugin(plugins, "Notify") # <<>>

\* C26: discovery never raises to its caller, at construction or at a
\* reload; and when it is over every class that can be registered, of every
\* file that can be loaded, is registered under its name, whatever other
\* files failed to execute and whatever other classes failed to instantiate.
C26_FailuresIsolated ==
    /\ reload.pc # "raised"
    /\ reload.pc = "idle"
       => \A f \in reload.dir : \A c \in Range(ValidClasses(f)) :
             /\ get_plugin(plugins, c.NAME) # <<>>
             /\ get_plugin(plugins, c.NAME)[1].class.NAME = c.NAME

C26_Witness ==
    /\ Reloaded
    /\ reload.order = <<BrokenFile, MixedFile, ZipFile>>
    /\ Keys(plugins) = {"Notify", "Zip"}

\* the classes registered by discovery, each with its file, in load order
RECURSIVE LoadOrder(_)
LoadOrder(files) ==
    IF files = <<>> THEN <<>>
    ELSE LET f == Head(files)
             valid == ValidClasses(f)
         IN  [i \in DOMAIN valid |-> [class |-> valid[i], file |-> f.name]]
             \o LoadOrder(Tail(files))

\* the last class of that name in load order
LastLoaded(files, name) ==
    LET named == SelectSeq(LoadOrder(files), LAMBDA x : x.class.NAME = name)
    IN  named[Len(named)]

\* C27: at every moment no two entries of the registry have the same name;
\* and when discovery is over the entry of a name holds the instance of the
\* class loaded last among the classes declaring that name, so no entry
\* holds an instance of an earlier one.
C27_LastLoadedWins ==
    /\ \A i, j \in DOMAIN plugins : plugins[i].name = plugins[j].name => i = j
    /\ reload.pc = "idle"
       => \A i \in DOMAIN plugins :
             LET last == LastLoaded(reload.order, plugins[i].name)
             IN  /\ plugins[i].value.class = last.class
                 /\ plugins[i].value.file = last.file

C27_Witness ==
    /\ Reloaded
    /\ reload.order = <<ZipFile, MixedFile, DupFile>>
    /\ Len(plugins) = 2
    /\ plugins[1].name = "Zip" /\ plugins[1].value.class.cls = "Archiver"
    /\ plugins[1].value.file = DupFile.name

\* C28: a get_plugin, execute_plugin or execute_post_build_plugins call made
\* while reload_plugins is at work finds and runs what it would with the
\* table of before the reload, or what it would with the table the reload
\* ends with.
C28_AtomicReload ==
    plog.overlap
    => LET old == reload.old
           new == load_plugins(<<>>, reload.order, reload.gen).table
       IN  CASE plog.op = "get_plugin" ->
                    plog.ran \in {get_plugin(old, plog.name), get_plugin(new, plog.name)}
             [] plog.op = "execute_plugin" ->
                    plog.ran \in {execute_plugin(old, plog.name, plog.outcome).ran,
                                  execute_plugin(new, plog.name, plog.outcome).ran}
             [] plog.op = "execute_post_build_plugins" ->
                    plog.ran \in {Selected(old), Selected(new)}

--------------------------------------------------------------------------
(* Properties of the module lists of the command *)

\* the entries of a list that are not blank, each stripped
Trimmed(entries) ==
    LET kept == SelectSeq(entries, LAMBDA e : strip(e) # <<>>)
    IN  [i \in DOMAIN kept |-> strip(kept[i])]

\* C31: for a configuration with a script the values that follow
\* --hidden-import in the command are the entries of hidden_imports that are
\* not blank, in list order, each stripped of the whitespace around it, one
\* flag before each; the same for --exclude-module and exclude_modules; so an
\* empty or all-whitespace entry gives no flag.
C31_ModuleFlags ==
    (bc_pc = "done" /\ bc_self.config.script_path # <<>>)
    => LET c == bc_self.config
           count(flag) == Cardinality({i \in DOMAIN bc_out.cmd : bc_out.cmd[i] = flag})
       IN  /\ ValuesOf(S("--hidden-import"), bc_out.cmd) = Trimmed(c.hidden_imports)
           /\ ValuesOf(S("--exclude-module"), bc_out.cmd) = Trimmed(c.exclude_modules)
           /\ count(S("--hidden-import")) = Len(Trimmed(c.hidden_imports))
           /\ count(S("--exclude-module")) = Len(Trimmed(c.exclude_modules))

C31_Witness ==
    /\ bc_pc = "done"
    /\ bc_self.config.hidden_imports = <<<<" ">>, <<" ", "m", " ">>>>
    /\ bc_self.config.exclude_modules = <<<<"e", " ">>, <<" ">>>>
    /\ ValuesOf(S("--hidden-import"), bc_out.cmd) = <<<<"m">>>>
    /\ ValuesOf(S("--exclude-module"), bc_out.cmd) = <<<<"e">>>>

--------------------------------------------------------------------------
(* Properties of the end of an environment operation *)

\* C32: a create, install or delete worker never emits operation_finished
\* twice; it has emitted it once, as the last thing it emits, exactly when
\* the operation is over, also when the operation raised (rmtree failing);
\* and run() returns rather than raising, so a thread that has ended has
\* reported once.
C32_OneFinishedPerOperation ==
    \A r \in DOMAIN vworkers :
        LET mine == VwEmitted(r)
        IN  /\ vworkers[r].operation \in {"create", "install", "delete"}
            /\ Len(VwFinished(r)) <= 1
            /\ vworkers[r].thread \in {"running", "finished"}
            /\ vworkers[r].pc = "done" <=> Len(VwFinished(r)) = 1
            /\ vworkers[r].thread = "finished"
               => /\ Len(VwFinished(r)) = 1
                  /\ mine[Len(mine)][1] = "operation_finished"
            /\ \A i \in DOMAIN mine :
                  mine[i][1] = "operation_finished" => i = Len(mine)

C32_Witness ==
    \E r \in DOMAIN vworkers :
        /\ vworkers[r].operation = "delete"
        /\ vworkers[r].thread = "finished"
        /\ Len(VwFinished(r)) = 1
        /\ ~VwFinished(r)[1].success
        /\ VwFinished(r)[1].message
              \in RmtreeErrors(vworkers[r].host_at_check, vworkers[r].venv_path)

--------------------------------------------------------------------------
(* Properties of the packaging processes of successive builds *)

\* the builds whose packaging process is running
AliveProcs == {w \in DOMAIN procs : procs[w].state = "alive"}

\* C33: at most one packaging process of the Builder is alive, and the
\* process of a worker whose thread cancel_build has ended is not running.
C33_OneProcessAlive ==
    /\ Cardinality(AliveProcs) <= 1
    /\ \A w \in DOMAIN workers :
          (workers[w].thread = "terminated" /\ main_pc = "idle")
          => procs[w].state # "alive"

--------------------------------------------------------------------------
(* Properties of the supervisor after the terminal result *)

\* C34: once the listener has received the build_finished of a build, the
\* worker of that build is not running, so is_building is false and a
\* start_build is not rejected on its account.
C34_IdleAfterFinished ==
    \A i \in DOMAIN delivered :
        delivered[i].sig = "build_finished"
        => /\ ~isRunning(delivered[i].w)
           /\ current_worker = delivered[i].w => (~is_building /\ ~start_rejected)

--------------------------------------------------------------------------
(* Properties of the window's build controls *)

\* Builder.cancel_build has been called for build w and has returned
CancelHandled(w) == workers[w].cancelled /\ main_pc = "idle"

\* this step hands a build_finished of build w with SUCCESS to the window
SuccessArrives(w) ==
    /\ Len(delivered') = Len(delivered) + 1
    /\ delivered'[Len(delivered')].w = w
    /\ delivered'[Len(delivered')].sig = "build_finished"
    /\ delivered'[Len(delivered')].arg.status = SUCCESS

\* C35: the post-build plugins are run at most once for a build and only
\* for a build whose SUCCESS result the window received; and once the cancel
\* of a build has been handled, no SUCCESS of that build arrives and no
\* post-build plugins are run for it.
C35_NoPluginsAfterCancel ==
    /\ [](\A w \in DOMAIN workers :
            /\ Len(SelectSeq(win.post_runs, LAMBDA x : x = w)) <= 1
            /\ w \in Range(win.post_runs) => GotFinished(w, SUCCESS))
    /\ [][\A w \in DOMAIN workers :
            CancelHandled(w)
            => /\ ~SuccessArrives(w)
               /\ Len(SelectSeq(win'.post_runs, LAMBDA x : x = w))
                     = Len(SelectSeq(win.post_runs, LAMBDA x : x = w))]_vars

\* the controls as they are when no build runs
UiIdle == win.build_btn /\ ~win.cancel_btn /\ ~win.progress_bar

\* C36: whenever no build is running, eventually the Build button is
\* enabled, the Cancel button disabled and the progress bar hidden: the
\* Build button does not stay disabled after the build has ended.
C36_ControlsReturnToIdle == (~is_building) ~> UiIdle

--------------------------------------------------------------------------
(* Properties of a rejected start *)

\* C37: a start_build call that ends in the RuntimeError leaves the Builder
\* and its workers as they were: current_worker is the same, still running,
\* worker; no worker and no process is added; nothing is emitted or
\* delivered by the call, so what the running build goes on to emit and
\* deliver is what it would without the call.
C37_RejectedStartNoEffect ==
    [][(last_start' = "RuntimeError" /\ last_start' # last_start)
       => /\ start_rejected
          /\ current_worker' = current_worker
          /\ isRunning(current_worker)
          /\ workers' = workers
          /\ procs' = procs
          /\ events' = events
          /\ delivered' = delivered
          /\ main_pc' = main_pc]_vars

C37_Witness ==
    /\ last_start = "RuntimeError"
    /\ Len(workers) = 1
    /\ current_worker = 1
    /\ workers[1].thread = "finished"
    /\ GotFinished(1, SUCCESS)
    /\ events = <<>>

--------------------------------------------------------------------------
(* Properties of the order of a build's notifications *)

\* everything worker w has emitted so far, oldest first
EmittedBy(w) == SelectSeq(AllEvents, LAMBDA e : e.w = w)

\* the place of an emission in run(): 1 'Preparing build...', 2 the command
\* echo, 3 'Building...', 4 a line of the process, 5 the result
Phase(e) ==
    IF e.sig = "status_changed" /\ e.arg = "Preparing build..." THEN 1
    ELSE IF e.sig = "output_line" /\ e.arg[1] = "cmd" THEN 2
    ELSE IF e.sig = "status_changed" /\ e.arg = "Building..." THEN 3
    ELSE IF e.sig = "output_line" THEN 4
    ELSE IF e.sig = "build_finished" THEN 5
    ELSE 0

\* C38: the emissions of one build come in the order 'Preparing build...',
\* command echo, 'Building...', lines of the process, result: the first three
\* once each at the first three places, the result once and last; the echo
\* and 'Building...' are emitted only by a build whose command construction
\* succeeded, and a process exists only once 'Building...' has been emitted.
C38_NotificationOrder ==
    \A w \in Workers :
        LET seq == EmittedBy(w)
            out == build_command(workers[w].self, HostEnv)
        IN  /\ \A i \in DOMAIN seq :
                /\ Phase(seq[i]) \in 1..5
                /\ (Phase(seq[i]) \in 1..3 => i = Phase(seq[i]))
                /\ (Phase(seq[i]) = 4 => i > 3)
                /\ (Phase(seq[i]) = 5 => i = Len(seq))
            /\ (seq # <<>> => Phase(seq[1]) = 1)
            /\ (Len(seq) >= 2 /\ Phase(seq[2]) # 2)
               => (Len(seq) = 2 /\ Phase(seq[2]) = 5)
            /\ (Len(seq) >= 3 => Phase(seq[3]) = 3)
            /\ (\E i \in DOMAIN seq : Phase(seq[i]) \in {2, 3})
               => (~out.raised /\ workers[w].cmd = out.cmd)
            /\ procs[w].state # "none"
               => \E i \in DOMAIN seq : Phase(seq[i]) = 3

C38_Witness ==
    \E w \in Workers :
        LET seq == EmittedBy(w)
        IN  /\ Len(seq) = 6
            /\ [i \in 1..6 |-> Phase(seq[i])] = <<1, 2, 3, 4, 4, 5>>
            /\ seq[4].arg[2] # seq[5].arg[2]
            /\ seq[6].arg.status = SUCCESS

--------------------------------------------------------------------------
(* Properties of the registry's entries *)

\* C39: at every moment of discovery and reload, each entry of the registry
\* is keyed by the NAME of the instance it holds and no two entries share a
\* key; each instance is of a class that derives from PluginBase, can be
\* instantiated, and is none of PluginBase, BuildProcessorPlugin and
\* PostBuildPlugin; and none comes from a file whose name starts with "_".
C39_RegistrySound ==
    /\ \A i \in DOMAIN plugins :
          LET held == plugins[i].value
          IN  /\ plugins[i].name = held.class.NAME
              /\ "PluginBase" \in held.class.bases
              /\ held.class.instantiable
              /\ held.class.cls \notin {"PluginBase", "BuildProcessorPlugin",
                                        "PostBuildPlugin"}
              /\ held.class \notin {PluginBase, BuildProcessorPlugin,
                                    PostBuildPlugin}
              /\ held.file[1] # "_"
              /\ \E f \in Files : f.name = held.file /\ held.class \in Range(f.classes)
    /\ \A i, j \in DOMAIN plugins : plugins[i].name = plugins[j].name => i = j

C39_Witness ==
    /\ Reloaded
    /\ {PrivateFile, ZipFile, MixedFile} \subseteq reload.dir
    /\ Keys(plugins) = {"Zip", "Notify"}
    /\ get_plugin(plugins, "Hidden") = <<>>
    /\ get_plugin(plugins, "Zip")[1].class.cls = "ZipOutputPlugin"

====
